---- MODULE Spec2Model ----
(***************************************************************************)
(* A model of backend/api/services/log_parser.py: LogParserService and     *)
(* determine_status.                                                       *)
(*                                                                         *)
(* Text is a sequence of tokens.  A token is a piece of text that the      *)
(* regular expressions and string searches of the parser treat as a unit:  *)
(* a single character that matters on its own (space, CR, LF, "|") or a    *)
(* whole word such as "PLAY [p]" or "ok: [h1]".  Every token is a record    *)
(* [k, a, b] so that any two tokens can be compared.                       *)
(***************************************************************************)
EXTENDS Naturals, Integers, Sequences, FiniteSets, TLC

(***************************************************************************)
(* Tokens                                                                  *)
(***************************************************************************)
Lit(s) == [k |-> "lit", a |-> s, b |-> ""]
SP == Lit(" ")
LF == Lit("\n")
CR == Lit("\r")
PIPE == Lit("|")
\* the text "2024-01-15 10:30:00,000": \d{4}-\d{2}-\d{2} \d{2}:\d{2}:\d{2},\d{3}
STAMP == Lit("2024-01-15 10:30:00,000")
\* the text "PLAY [n]" / "TASK [n]"
PlayHdr(n) == [k |-> "PLAY [", a |-> n, b |-> "]"]
TaskHdr(n) == [k |-> "TASK [", a |-> n, b |-> "]"]
\* the text "PLAY [" / "TASK [" on a line that holds no "]" after it
PlayOpen == [k |-> "PLAY [", a |-> "", b |-> ""]
TaskOpen == [k |-> "TASK [", a |-> "", b |-> ""]
RECAP == Lit("PLAY RECAP")
\* the text "s: [h]", s one of the eight status words in any letter case
StatusTok(s, h) == [k |-> "status", a |-> s, b |-> h]
ARROW == Lit("=>")
LBRACE == Lit("{")
RBRACE == Lit("}")
COMMA == Lit(",")
\* the text "msg": v  where v is a JSON value of type ty whose text is raw
MsgMember(ty, raw) == [k |-> "msg:" \o ty, a |-> raw, b |-> ""]
\* any other member of a JSON object, such as "rc": 1
OtherMember == Lit("\"rc\": 1")
\* a member of a JSON object whose value is nested deeper than the recursion
\* limit of the interpreter, such as "a": [[[[ ... a thousand times over
DeepMember == Lit("\"a\": [[[[...")
\* text that no pattern of the parser matches
WORD == Lit("x")

\* str.strip() removes these
Whitespace == {SP, LF, CR}

(***************************************************************************)
(* String primitives                                                       *)
(***************************************************************************)
Tail0(s, n) == SubSeq(s, n + 1, Len(s))      \* s[n:]

RECURSIVE LStrip(_)
LStrip(s) ==
  IF s # <<>> /\ Head(s) \in Whitespace THEN LStrip(Tail(s)) ELSE s

RECURSIVE RStrip(_)
RStrip(s) ==
  IF s # <<>> /\ s[Len(s)] \in Whitespace
  THEN RStrip(SubSeq(s, 1, Len(s) - 1)) ELSE s

\* str.strip()
Strip(s) == RStrip(LStrip(s))

\* str.split("\n"): always at least one line
RECURSIVE SplitFrom(_, _)
SplitFrom(s, cur) ==
  IF s = <<>> THEN <<cur>>
  ELSE IF Head(s) = LF THEN <<cur>> \o SplitFrom(Tail(s), <<>>)
  ELSE SplitFrom(Tail(s), Append(cur, Head(s)))

Split(s) == SplitFrom(s, <<>>)

\* "\n".join(lines)
RECURSIVE Join(_)
Join(ls) ==
  IF ls = <<>> THEN <<>>
  ELSE IF Len(ls) = 1 THEN ls[1]
  ELSE LET half == Len(ls) \div 2
       IN Join(SubSeq(ls, 1, half)) \o <<LF>> \o Join(SubSeq(ls, half + 1, Len(ls)))

\* index (0-based) of the first place where pat occurs in s, or -1: str.find
RECURSIVE FindFrom(_, _, _)
FindFrom(s, pat, n) ==
  IF n + Len(pat) > Len(s) THEN -1
  ELSE IF SubSeq(s, n + 1, n + Len(pat)) = pat THEN n
  ELSE FindFrom(s, pat, n + 1)

Find(s, pat) == FindFrom(s, pat, 0)

\* str.startswith
StartsWith(s, pat) == Len(s) >= Len(pat) /\ SubSeq(s, 1, Len(pat)) = pat

(***************************************************************************)
(* The patterns of LogParserService                                        *)
(***************************************************************************)
\* TIMESTAMP_PATTERN.match(line): the stamp, one space and a pipe, at the start
TimestampMatch(line) == StartsWith(line, <<STAMP, SP, PIPE>>)

\* line.startswith("PLAY [") / ("TASK [") / ("PLAY RECAP")
StartsWithPlay(line) == line # <<>> /\ line[1].k = "PLAY ["
StartsWithTask(line) == line # <<>> /\ line[1].k = "TASK ["
StartsWithRecap(line) == line # <<>> /\ line[1] = RECAP

\* PLAY_PATTERN.search(line) / TASK_PATTERN.search(line): the positions of the
\* closed headers of the line; group(1) is the name of the first one
PlayHits(line) == {j \in 1..Len(line) : line[j].k = "PLAY [" /\ line[j].b = "]"}
TaskHits(line) == {j \in 1..Len(line) : line[j].k = "TASK [" /\ line[j].b = "]"}
Min(S) == CHOOSE x \in S : \A y \in S : x <= y
Max(S) == CHOOSE x \in S : \A y \in S : x >= y
PlaySearch(line) == PlayHits(line) # {}
PlayGroup1(line) == line[Min(PlayHits(line))].a
TaskSearch(line) == TaskHits(line) # {}
TaskGroup1(line) == line[Min(TaskHits(line))].a

\* STATUS_PATTERN.match(line): a status word, a colon, a host in brackets, at
\* the start of the line
StatusMatch(line) == line # <<>> /\ line[1].k = "status"
\* group(1).lower()
Lower(s) ==
  CASE s = "FAILED" -> "failed"
    [] s = "OK" -> "ok"
    [] s = "Changed" -> "changed"
    [] OTHER -> s
StatusGroup1Lower(line) == Lower(line[1].a)
StatusGroup2(line) == line[1].b

(***************************************************************************)
(* Optional[str]: None, or a string given as the sequence of its pieces    *)
(***************************************************************************)
None == [some |-> FALSE, text |-> <<>>]
Some(t) == [some |-> TRUE, text |-> t]
\* Python's truth value of an Optional[str]: None and "" are false
Truthy(m) == m.some /\ m.text # <<>>

(***************************************************************************)
(* _parse_msg_from_json                                                    *)
(***************************************************************************)
IsMember(t) == t = OtherMember \/ t.k \in {"msg:str", "msg:list", "msg:null"}
IsMsgMember(t) == t.k \in {"msg:str", "msg:list", "msg:null"}

\* what json.loads makes of the escapes of a string literal
Unescape(raw) == IF raw = "say \\\"hi\\\"" THEN "say \"hi\"" ELSE raw

\* str(msg), or "\n".join(str(item) for item in msg) for a list
MsgText(t) ==
  CASE t.k = "msg:str" -> IF t.a = "" THEN <<>> ELSE <<Unescape(t.a)>>
    [] t.k = "msg:list" -> <<t.a, "\n", t.b>>
    [] OTHER -> <<"None">>

\* the tokens of a text that are not JSON whitespace
NoSpace(s) == SelectSeq(s, LAMBDA t : t \notin Whitespace)

\* json.loads(json_str) returns a dict: "{", members separated by commas, "}"
\* and nothing else
IsJsonObject(s) ==
  LET t == NoSpace(s)
      n == Len(t)
  IN /\ n >= 2
     /\ t[1] = LBRACE
     /\ t[n] = RBRACE
     /\ \/ n = 2
        \/ /\ n % 2 = 1
           /\ \A j \in 2..(n - 1) :
                IF j % 2 = 0 THEN IsMember(t[j]) ELSE t[j] = COMMA

\* json.loads(json_str) raises RecursionError: the scanner meets the deep value
\* after a well-formed start of an object.  RecursionError is a RuntimeError,
\* neither a JSONDecodeError nor a ValueError
JsonRecursionError(json_str) ==
  LET t == NoSpace(json_str)
  IN \E n \in 2..Len(t) :
       /\ t[1] = LBRACE
       /\ t[n] = DeepMember
       /\ n % 2 = 0
       /\ \A j \in 2..(n - 1) :
            IF j % 2 = 0 THEN IsMember(t[j]) ELSE t[j] = COMMA

\* the exception that leaves _parse_msg_from_json, if any
ParseMsgRaises(json_str) == JsonRecursionError(json_str)

ParseMsgFromJson(json_str) ==
  LET t == NoSpace(json_str)
      hits == {j \in 1..Len(t) : IsMsgMember(t[j])}
  IN IF IsJsonObject(json_str) /\ hits # {}
     THEN Some(MsgText(t[Max(hits)]))      \* a repeated key: the last one wins
     ELSE None

(***************************************************************************)
(* _extract_failure_message                                                *)
(***************************************************************************)
AccumulateCap == 100
FallbackCap == 50

\* lines[j] of a Python list
At(lines, j) == lines[j + 1]

MinOf(x, y) == IF x < y THEN x ELSE y

\* faulty variant: the accumulation runs to the end of the text
AccumulateStopAtEnd(idx, n) == n

\* min(status_line_idx + 100, len(lines)): where the accumulation stops
AccumulateStop(idx, n) == MinOf(idx + AccumulateCap, n)

\* min(status_line_idx + 50, len(lines)): where the fallback stops
FallbackStop(idx, n) == MinOf(idx + FallbackCap, n)

\* for j in range(from, to): json_lines.append(lines[j].strip()); stop after "}"
Accumulate(lines, json_lines, j, to) ==
  IF j >= to THEN json_lines
  ELSE LET closers == {n \in j..(to - 1) : Strip(At(lines, n)) = <<RBRACE>>}
           last == IF closers = {} THEN to - 1 ELSE Min(closers)
       IN json_lines \o [n \in 1..(last - j + 1) |-> Strip(At(lines, j + n - 1))]

\* re.search(r'"msg":\s*"((?:[^"\\]|\\.)*)"', line): the first "msg" member whose
\* value is a string literal; group(1) is its raw text
MsgRegexHits(line) == {j \in 1..Len(line) : line[j].k = "msg:str"}

\* faulty variant: the fallback also stops at the recap header and at a status
\* line
FallbackBreakAtResults(line) ==
  \/ StartsWithTask(line) \/ StartsWithPlay(line)
  \/ StartsWithRecap(line) \/ StatusMatch(line)

\* the break of the fallback loop: if line.startswith("TASK [") or
\* line.startswith("PLAY [")
FallbackBreak(line) == StartsWithTask(line) \/ StartsWithPlay(line)

\* the fallback loop: for j in range(idx, min(idx + 50, len(lines)))
\* it ends at the first line starting with TASK [ or PLAY [, or with the first
\* line before that one on which the pattern is found
FallbackScan(lines, j, to) ==
  LET stops == {n \in j..(to - 1) : FallbackBreak(Strip(At(lines, n)))}
      first_stop == IF stops = {} THEN to ELSE Min(stops)
      hits == {n \in j..(first_stop - 1) : MsgRegexHits(Strip(At(lines, n))) # {}}
  IN IF hits = {} THEN None
     ELSE LET line == Strip(At(lines, Min(hits)))
              raw == line[Min(MsgRegexHits(line))].a
          IN Some(IF raw = "" THEN <<>> ELSE <<raw>>)

ArrowPat == <<ARROW, SP, LBRACE>>

\* the inline strategy and the multi-line strategy anchored at the status line
SameLineMsg(lines, idx) ==
  LET status_line == At(lines, idx)
      arrow_idx == Find(status_line, ArrowPat)
      json_str == Strip(Tail0(status_line, arrow_idx + 2))
      inline == ParseMsgFromJson(json_str)
      json_lines == Accumulate(lines, <<json_str>>, idx + 1,
                               AccumulateStop(idx, Len(lines)))
      multi == ParseMsgFromJson(Join(json_lines))
  IN IF arrow_idx = -1 THEN None
     ELSE IF Truthy(inline) THEN inline
     ELSE IF Truthy(multi) THEN multi
     ELSE None

\* the strategy anchored at the line after the status line
NextLineMsg(lines, idx) ==
  IF idx + 1 < Len(lines) /\ StartsWith(Strip(At(lines, idx + 1)), ArrowPat)
  THEN LET next_line == Strip(At(lines, idx + 1))
           json_lines == Accumulate(lines, <<Strip(Tail0(next_line, 2))>>, idx + 2,
                                    AccumulateStop(idx, Len(lines)))
           msg == ParseMsgFromJson(Join(json_lines))
       IN IF Truthy(msg) THEN msg ELSE None
  ELSE None

ExtractFailureMessage(lines, idx) ==
  IF Truthy(SameLineMsg(lines, idx)) THEN SameLineMsg(lines, idx)
  ELSE IF Truthy(NextLineMsg(lines, idx)) THEN NextLineMsg(lines, idx)
  ELSE FallbackScan(lines, idx, FallbackStop(idx, Len(lines)))

\* an exception leaves the strategies anchored at the status line
SameLineRaises(lines, idx) ==
  LET status_line == At(lines, idx)
      arrow_idx == Find(status_line, ArrowPat)
      json_str == Strip(Tail0(status_line, arrow_idx + 2))
      json_lines == Accumulate(lines, <<json_str>>, idx + 1,
                               AccumulateStop(idx, Len(lines)))
  IN /\ arrow_idx # -1
     /\ \/ ParseMsgRaises(json_str)
        \/ /\ ~Truthy(ParseMsgFromJson(json_str))
           /\ ParseMsgRaises(Join(json_lines))

\* an exception leaves the strategy anchored at the line after the status line
NextLineRaises(lines, idx) ==
  /\ idx + 1 < Len(lines)
  /\ StartsWith(Strip(At(lines, idx + 1)), ArrowPat)
  /\ LET next_line == Strip(At(lines, idx + 1))
         json_lines == Accumulate(lines, <<Strip(Tail0(next_line, 2))>>, idx + 2,
                                  AccumulateStop(idx, Len(lines)))
     IN ParseMsgRaises(Join(json_lines))

\* an exception leaves _extract_failure_message
ExtractFailureMessageRaises(lines, idx) ==
  \/ SameLineRaises(lines, idx)
  \/ /\ ~Truthy(SameLineMsg(lines, idx))
     /\ NextLineRaises(lines, idx)

(***************************************************************************)
(* _extract_tasks_from_content                                             *)
(***************************************************************************)
\* current_play is None; a play name is never empty ([^\]]+)
NoPlay == ""

ParsedTaskResult(hostname, status, message) ==
  [hostname |-> hostname, status |-> status, message |-> message]

ParsedTask(name, order, play_name, line_number) ==
  [name |-> name, order |-> order, play_name |-> play_name,
   line_number |-> line_number, results |-> <<>>]

\* dict.get(key, default) and dict[key] = value, a dict being a function
Get(d, key, default) == IF key \in DOMAIN d THEN d[key] ELSE default
Put(d, key, value) == [x \in DOMAIN d \cup {key} |-> IF x = key THEN value ELSE d[x]]

\* the state of the scan before the first line is read
ScanInit ==
  [pc |-> "outer", i |-> 0, current_play |-> NoPlay,
   play_task_order |-> << >>, task_map |-> <<>>,
   task_name |-> "", order |-> 0, task_line_number |-> 0]

\* faulty variant: the counter of a play seen before goes on counting
OnPlayHeaderNoReset(s, name) ==
  [s EXCEPT !.current_play = name,
            !.play_task_order = Put(@, name, Get(@, name, 0)),
            !.i = @ + 1]

\* faulty variant: the line index is not advanced after a PLAY header
OnPlayHeaderStuck(s, name) ==
  [s EXCEPT !.current_play = name,
            !.play_task_order = Put(@, name, 0)]

\* a matched PLAY header: the play becomes the current one, its counter restarts
OnPlayHeader(s, name) ==
  [s EXCEPT !.current_play = name,
            !.play_task_order = Put(@, name, 0),
            !.i = @ + 1]

\* the positions in task_map of the task with this key (none or one)
KeyHits(task_map, play_name, name, order) ==
  {j \in 1..Len(task_map) : /\ task_map[j].play_name = play_name
                            /\ task_map[j].name = name
                            /\ task_map[j].order = order}

\* faulty variant: the counter of the play is not advanced
OnTaskHeaderNoAdvance(s, name) ==
  LET order == Get(s.play_task_order, s.current_play, 0)
  IN [s EXCEPT !.task_name = name,
               !.task_line_number = s.i + 1,
               !.order = order,
               !.i = @ + 1,
               !.pc = "inner"]

\* faulty variant: the ParsedTask is made at the header, before any status line
OnTaskHeaderCreates(s, name) ==
  LET order == Get(s.play_task_order, s.current_play, 0)
  IN [s EXCEPT !.task_name = name,
               !.task_line_number = s.i + 1,
               !.order = order,
               !.play_task_order = Put(@, s.current_play, order + 1),
               !.task_map = IF KeyHits(@, s.current_play, name, order) = {}
                            THEN Append(@, ParsedTask(name, order, s.current_play, s.i + 1))
                            ELSE @,
               !.i = @ + 1,
               !.pc = "inner"]

\* a matched TASK header inside a play: take the counter as the order, advance
\* the counter, go on to the lines of the task
OnTaskHeader(s, name) ==
  LET order == Get(s.play_task_order, s.current_play, 0)
  IN [s EXCEPT !.task_name = name,
               !.task_line_number = s.i + 1,
               !.order = order,
               !.play_task_order = Put(@, s.current_play, order + 1),
               !.i = @ + 1,
               !.pc = "inner"]

\* faulty variant: the earlier result of the host stays
MergeResultKeepAll(results, r) == Append(results, r)

\* existing_task.results without the host's earlier result, plus the new one
MergeResult(results, r) ==
  Append(SelectSeq(results, LAMBDA x : x.hostname # r.hostname), r)

\* get or create the ParsedTask of the key, then merge the result into it
Upsert(s, r) ==
  LET hits == KeyHits(s.task_map, s.current_play, s.task_name, s.order)
      tm == IF hits = {}
            THEN Append(s.task_map,
                        ParsedTask(s.task_name, s.order, s.current_play,
                                   s.task_line_number))
            ELSE s.task_map
      j == Min(KeyHits(tm, s.current_play, s.task_name, s.order))
  IN [tm EXCEPT ![j].results = MergeResult(@, r)]

\* the message of a status line: looked for only when the task failed
FailureMsg(lines, idx, task_status) ==
  IF task_status \in {"failed", "fatal"}
  THEN ExtractFailureMessage(lines, idx) ELSE None

\* the look for the message of a status line raises
FailureMsgRaises(lines, idx, task_status) ==
  task_status \in {"failed", "fatal"} /\ ExtractFailureMessageRaises(lines, idx)

\* a matched status line under the open task
OnStatusLine(lines, s) ==
  LET result_stripped == Strip(At(lines, s.i))
      task_status == StatusGroup1Lower(result_stripped)
      hostname == StatusGroup2(result_stripped)
      failure_msg == FailureMsg(lines, s.i, task_status)
  IN [s EXCEPT !.task_map =
                 Upsert(s, ParsedTaskResult(hostname, task_status, failure_msg)),
               !.i = @ + 1]

\* faulty variant: the recap header does not end the lines of a task
IsBoundaryNoRecap(line) == StartsWithTask(line) \/ StartsWithPlay(line)

\* a line that ends the lines of a task
IsBoundary(line) ==
  StartsWithTask(line) \/ StartsWithPlay(line) \/ StartsWithRecap(line)

\* one iteration of the outer loop (or its exit)
OuterStep(lines, s) ==
  IF s.i >= Len(lines) THEN [s EXCEPT !.pc = "done"]
  ELSE LET stripped == Strip(At(lines, s.i))
       IN IF StartsWithPlay(stripped)
          THEN IF PlaySearch(stripped)
               THEN OnPlayHeader(s, PlayGroup1(stripped))
               ELSE [s EXCEPT !.i = @ + 1]
          ELSE IF StartsWithTask(stripped) /\ s.current_play # NoPlay
          THEN IF TaskSearch(stripped)
               THEN OnTaskHeader(s, TaskGroup1(stripped))
               ELSE [s EXCEPT !.i = @ + 1]
          ELSE [s EXCEPT !.i = @ + 1]

\* one iteration of the inner loop (or its exit back to the outer loop)
InnerStep(lines, s) ==
  IF s.i >= Len(lines) THEN [s EXCEPT !.pc = "outer"]
  ELSE LET result_stripped == Strip(At(lines, s.i))
       IN IF IsBoundary(result_stripped) THEN [s EXCEPT !.pc = "outer"]
          ELSE IF StatusMatch(result_stripped)
          THEN IF FailureMsgRaises(lines, s.i, StatusGroup1Lower(result_stripped))
               THEN [s EXCEPT !.pc = "raised"]
               ELSE OnStatusLine(lines, s)
          ELSE [s EXCEPT !.i = @ + 1]

ScanStep(lines, s) ==
  IF s.pc = "outer" THEN OuterStep(lines, s) ELSE InnerStep(lines, s)

\* the whole scan, up to its return or to the exception that ends it
RECURSIVE RunScan(_, _)
RunScan(lines, s) ==
  IF s.pc \in {"done", "raised"} THEN s ELSE RunScan(lines, ScanStep(lines, s))

\* return list(task_map.values())
ExtractTasksFromContent(content) == RunScan(Split(content), ScanInit).task_map

\* an exception leaves _extract_tasks_from_content
ExtractTasksRaises(content) == RunScan(Split(content), ScanInit).pc = "raised"

(***************************************************************************)
(* _extract_plays_with_line_numbers                                        *)
(***************************************************************************)
\* line_number is None; a line number is 1 or more (enumerate(lines, start=1))
NoLine == 0

ParsedPlay(name, order, line_number) ==
  [name |-> name, order |-> order, line_number |-> line_number]

InSeq(x, sq) == \E n \in 1..Len(sq) : sq[n] = x

\* the state of the indexer before the first line is read
IndexInit ==
  [pc |-> "scan", line_num |-> 1, n |-> 1, plays |-> <<>>,
   found_plays |-> {}, order |-> 0]

\* faulty variant: every header is recorded, also a repeated one
RecordPlayAlways(x, play_names, play_name) == InSeq(play_name, play_names)

\* the header names a known play that was not found before
RecordPlay(x, play_names, play_name) ==
  InSeq(play_name, play_names) /\ play_name \notin x.found_plays

\* one iteration of the loop over the lines (or its exit)
IndexLineStep(ls, play_names, x) ==
  IF x.line_num > Len(ls) THEN [x EXCEPT !.pc = "missing"]
  ELSE LET line == ls[x.line_num]
       IN IF PlaySearch(line) /\ RecordPlay(x, play_names, PlayGroup1(line))
          THEN [x EXCEPT !.plays = Append(@, ParsedPlay(PlayGroup1(line), x.order,
                                                       x.line_num)),
                         !.found_plays = @ \cup {PlayGroup1(line)},
                         !.order = @ + 1,
                         !.line_num = @ + 1]
          ELSE [x EXCEPT !.line_num = @ + 1]

\* faulty variant: a known play that was not found is dropped
AddMissingNever(x, name) == x

\* a known play with no header in the text: no line number, the next order
AddMissing(x, name) ==
  IF name \notin x.found_plays
  THEN [x EXCEPT !.plays = Append(@, ParsedPlay(name, x.order, NoLine)),
                 !.order = @ + 1]
  ELSE x

\* one iteration of the loop over play_names (or its exit)
IndexMissingStep(play_names, x) ==
  IF x.n > Len(play_names) THEN [x EXCEPT !.pc = "done"]
  ELSE [AddMissing(x, play_names[x.n]) EXCEPT !.n = @ + 1]

IndexStep(ls, play_names, x) ==
  IF x.pc = "scan" THEN IndexLineStep(ls, play_names, x)
  ELSE IndexMissingStep(play_names, x)

RECURSIVE RunIndex(_, _, _)
RunIndex(ls, play_names, x) ==
  IF x.pc = "done" THEN x.plays ELSE RunIndex(ls, play_names, IndexStep(ls, play_names, x))

ExtractPlaysWithLineNumbers(content, play_names) ==
  RunIndex(Split(content), play_names, IndexInit)

(***************************************************************************)
(* parse and its two paths                                                 *)
(***************************************************************************)
\* None where a string or a datetime is expected
PyNone == "<None>"

\* raw_content.replace("\r\n", "\n").replace("\r", "\n")
RECURSIVE ReplaceCRLF(_)
ReplaceCRLF(s) ==
  IF s = <<>> THEN <<>>
  ELSE IF Len(s) >= 2 /\ s[1] = CR /\ s[2] = LF THEN <<LF>> \o ReplaceCRLF(Tail0(s, 2))
  ELSE <<Head(s)>> \o ReplaceCRLF(Tail(s))

ReplaceCR(s) == [n \in 1..Len(s) |-> IF s[n] = CR THEN LF ELSE s[n]]

NormalizeLineEndings(s) == ReplaceCR(ReplaceCRLF(s))

\* faulty variant: only the empty string counts as empty
IsEmptyContentNoStrip(raw) == raw = <<>>

\* not raw_content or not raw_content.strip()
IsEmptyContent(raw) == raw = <<>> \/ Strip(raw) = <<>>

\* _detect_format
DetectFormat(content) ==
  LET first_line == IF Strip(content) # <<>> THEN Split(Strip(content))[1] ELSE <<>>
  IN IF TimestampMatch(first_line) THEN "logs" ELSE "play"

\* _strip_timestamps, one line
StripLine(line) ==
  IF TimestampMatch(line)
  THEN LET pipe_idx == Find(line, <<SP, PIPE, SP>>)
       IN IF pipe_idx # -1 THEN Tail0(line, pipe_idx + 3) ELSE line
  ELSE line

StripTimestamps(content) ==
  LET ls == Split(content)
  IN Join([n \in 1..Len(ls) |-> StripLine(ls[n])])

CountKeys == <<"ok", "changed", "failed", "unreachable", "skipped", "rescued", "ignored">>

ParsedHost(hostname, counts) ==
  [hostname |-> hostname,
   ok |-> Get(counts, "ok", 0),
   changed |-> Get(counts, "changed", 0),
   failed |-> Get(counts, "failed", 0),
   unreachable |-> Get(counts, "unreachable", 0),
   skipped |-> Get(counts, "skipped", 0),
   rescued |-> Get(counts, "rescued", 0),
   ignored |-> Get(counts, "ignored", 0)]

\* _extract_hosts_from_recap: recap is the parser's _recap, a dict given as the
\* sequence of its items [hostname, counts]
ExtractHostsFromRecap(recap) ==
  [n \in 1..Len(recap) |-> ParsedHost(recap[n].hostname, recap[n].counts)]

\* faulty variant: the counts of the later section replace the earlier ones
AddCountsOverwrite(existing, host) == host

\* existing.ok += host.ok, and so on for the seven counts
AddCounts(existing, host) ==
  [existing EXCEPT !.ok = @ + host.ok,
                   !.changed = @ + host.changed,
                   !.failed = @ + host.failed,
                   !.unreachable = @ + host.unreachable,
                   !.skipped = @ + host.skipped,
                   !.rescued = @ + host.rescued,
                   !.ignored = @ + host.ignored]

\* one host of a recap merged into all_hosts (a dict, in insertion order)
MergeHost(all_hosts, host) ==
  IF \E n \in 1..Len(all_hosts) : all_hosts[n].hostname = host.hostname
  THEN [n \in 1..Len(all_hosts) |->
          IF all_hosts[n].hostname = host.hostname
          THEN AddCounts(all_hosts[n], host) ELSE all_hosts[n]]
  ELSE Append(all_hosts, host)

RECURSIVE MergeHosts(_, _)
MergeHosts(all_hosts, hosts) ==
  IF hosts = <<>> THEN all_hosts
  ELSE MergeHosts(MergeHost(all_hosts, Head(hosts)), Tail(hosts))

\* for name in play_names: if name not in all_play_names: append
RECURSIVE MergeNames(_, _)
MergeNames(all_play_names, play_names) ==
  IF play_names = <<>> THEN all_play_names
  ELSE MergeNames(IF InSeq(Head(play_names), all_play_names) THEN all_play_names
                  ELSE Append(all_play_names, Head(play_names)),
                  Tail(play_names))

\* for play in log_parser.plays: the names and the hosts of every run
RECURSIVE CollectRuns(_, _)
CollectRuns(runs, acc) ==
  IF runs = <<>> THEN acc
  ELSE CollectRuns(Tail(runs),
                   [all_play_names |-> MergeNames(acc.all_play_names, Head(runs).names),
                    all_hosts |-> MergeHosts(acc.all_hosts,
                                             ExtractHostsFromRecap(Head(runs).recap))])

ParseResult(success, hosts, plays, tasks, timestamp, error, detail, parser_type, traceback_str) ==
  [success |-> success, hosts |-> hosts, plays |-> plays, tasks |-> tasks,
   timestamp |-> timestamp, error |-> error, detail |-> detail,
   parser_type |-> parser_type, traceback_str |-> traceback_str]

EmptyContentResult ==
  ParseResult(FALSE, <<>>, <<>>, <<>>, PyNone, "Empty log content",
              "The provided log content is empty or contains only whitespace",
              PyNone, PyNone)

NoHostsResult(parser_type) ==
  ParseResult(FALSE, <<>>, <<>>, <<>>, PyNone, "No hosts found in log",
              "The parser could not find any PLAY RECAP section", parser_type, PyNone)

ParsingFailedResult(e, parser_type) ==
  ParseResult(FALSE, <<>>, <<>>, <<>>, PyNone, "Log parsing failed",
              e, parser_type, "traceback.format_exc()")

\* faulty variant: the check for hosts is left out
NoHostsNever(hosts) == FALSE

\* not hosts
NoHosts(hosts) == hosts = <<>>

\* faulty variant: the no-hosts failure carries the plays and tasks extracted
ParsePlayOutputKeepsTasks(content, parser) ==
  LET play_names == parser.names
      plays == ExtractPlaysWithLineNumbers(content, play_names)
      hosts == ExtractHostsFromRecap(parser.recap)
      tasks == ExtractTasksFromContent(content)
  IN IF NoHosts(hosts)
     THEN [NoHostsResult("play") EXCEPT !.plays = plays, !.tasks = tasks]
     ELSE ParseResult(TRUE, hosts, plays, tasks, PyNone, PyNone, PyNone, "play", PyNone)

\* _parse_play_output, given what Play(play_output=content) made of the text
ParsePlayOutput(content, parser) ==
  LET play_names == parser.names
      plays == ExtractPlaysWithLineNumbers(content, play_names)
      hosts == ExtractHostsFromRecap(parser.recap)
      tasks == ExtractTasksFromContent(content)
  IN IF NoHosts(hosts) THEN NoHostsResult("play")
     ELSE ParseResult(TRUE, hosts, plays, tasks, PyNone, PyNone, PyNone, "play", PyNone)

\* the body of _parse_log_file, given the plays of Logs(log_file=tmp_path)
ParseLogFile(content, log_plays) ==
  LET all == CollectRuns(log_plays, [all_play_names |-> <<>>, all_hosts |-> <<>>])
      stripped_content == StripTimestamps(content)
      all_tasks == ExtractTasksFromContent(stripped_content)
      plays == ExtractPlaysWithLineNumbers(content, all.all_play_names)
  IN IF NoHosts(all.all_hosts) THEN NoHostsResult("logs")
     ELSE ParseResult(TRUE, all.all_hosts, plays, all_tasks, "last_processed_time",
                      PyNone, PyNone, "logs", PyNone)

\* faulty variant: the handler catches one kind of exception only
CaughtOSErrorOnly(e) == e = "OSError"

\* except Exception: every exception raised inside the try block is caught
Caught(e) == TRUE

(***************************************************************************)
(* State                                                                   *)
(***************************************************************************)
VARIABLES
  lines,      \* content.split("\n") of the extractor that is running
  scan,       \* _extract_tasks_from_content: its local variables
  names,      \* _extract_plays_with_line_numbers: play_names
  ix,         \* _extract_plays_with_line_numbers: its local variables
  input,      \* parse: raw_content as the caller passed it
  raw_content,\* parse: raw_content after the line endings are normalised
  parser_type,\* parse: parser_type
  pc,         \* parse: where the call stands
  lib,        \* what ansible_parser makes of the text: the runs it finds
  exc,        \* the exception in flight, if any
  tmp,        \* the scratch file of _parse_log_file
  result,     \* the ParseResult returned
  host,       \* determine_status: its argument
  status,     \* determine_status: what it returned
  fm,         \* _extract_failure_message: its local variables
  calls,      \* the parse calls of several threads: where each one stands
  files,      \* the scratch files of the temporary directory
  req,        \* LogViewSet.create: the request being served
  store       \* the records of the database: logs, hosts, plays

extractVars == <<lines, scan, names, ix>>
parseVars == <<input, raw_content, parser_type, pc, lib, exc, tmp, result>>
otherVars == <<host, status, fm, calls, files, req, store>>
vars == <<lines, scan, names, ix, input, raw_content, parser_type, pc, lib, exc, tmp, result, host, status, fm, calls, files, req, store>>

\* parse is not running
ParseIdle ==
  /\ input = <<>> /\ raw_content = <<>> /\ parser_type = PyNone /\ pc = "idle"
  /\ lib = <<>> /\ exc = PyNone /\ tmp = "none" /\ result = EmptyContentResult

\* a component that is not running
Idle == [pc |-> "idle"]

\* determine_status, _extract_failure_message, the threads and the API are not
\* running
OtherIdle ==
  /\ host = Idle /\ status = PyNone /\ fm = Idle /\ calls = <<>> /\ files = {}
  /\ req = Idle /\ store = Idle

(***************************************************************************)
(* The task extractor, one loop iteration per step                         *)
(***************************************************************************)
MaxLines == 6
MaxShortLines == 4

PlayLine(n) == <<PlayHdr(n)>>
TaskLine(n) == <<TaskHdr(n)>>
OkLine(h) == <<StatusTok("ok", h)>>
FailedLine(h) ==
  <<StatusTok("FAILED", h), SP, ARROW, SP, LBRACE, MsgMember("str", "boom"), RBRACE>>

\* the lines of the long transcripts: one play, one task, two hosts
CoreLines ==
  { PlayLine("p"), TaskLine("t"), OkLine("h1"), OkLine("h2"), FailedLine("h1") }

\* the lines of the short transcripts: also a second task, a second play, the
\* recap header, a blank line and a task header that is not closed
MoreLines ==
  CoreLines \cup { TaskLine("u"), PlayLine("q"), <<RECAP>>, <<>>, <<TaskOpen>> }

SeqsUpTo(S, n) == UNION {[1..m -> S] : m \in 1..n}

InitTasks ==
  /\ lines \in SeqsUpTo(CoreLines, MaxLines)
  /\ scan = ScanInit
  /\ names = <<>> /\ ix = Idle
  /\ ParseIdle
  /\ OtherIdle

InitShort ==
  /\ lines \in SeqsUpTo(MoreLines, MaxShortLines)
  /\ scan = ScanInit
  /\ names = <<>> /\ ix = Idle
  /\ ParseIdle
  /\ OtherIdle

ScanLine == Strip(At(lines, scan.i))
ScanMore == scan.pc \notin {"done", "raised"} /\ scan.i < Len(lines)

\* a line starting with "PLAY [" met by the outer loop
ScanPlayHeader ==
  /\ scan.pc = "outer" /\ ScanMore /\ StartsWithPlay(ScanLine)
  /\ scan' = ScanStep(lines, scan)
  /\ UNCHANGED <<lines, names, ix>>
  /\ UNCHANGED <<parseVars, otherVars>>

\* a line starting with "TASK [" met by the outer loop
ScanTaskHeader ==
  /\ scan.pc = "outer" /\ ScanMore
  /\ ~StartsWithPlay(ScanLine) /\ StartsWithTask(ScanLine)
  /\ scan' = ScanStep(lines, scan)
  /\ UNCHANGED <<lines, names, ix>>
  /\ UNCHANGED <<parseVars, otherVars>>

\* any other line met by the outer loop
ScanSkip ==
  /\ scan.pc = "outer" /\ ScanMore
  /\ ~StartsWithPlay(ScanLine) /\ ~StartsWithTask(ScanLine)
  /\ scan' = ScanStep(lines, scan)
  /\ UNCHANGED <<lines, names, ix>>
  /\ UNCHANGED <<parseVars, otherVars>>

\* a line of the open task met by the inner loop: a status line is merged
\* into the task, any other line is passed over
ScanTaskLine ==
  /\ scan.pc = "inner" /\ ScanMore /\ ~IsBoundary(ScanLine)
  /\ scan' = ScanStep(lines, scan)
  /\ UNCHANGED <<lines, names, ix>>
  /\ UNCHANGED <<parseVars, otherVars>>

\* the inner loop ends: a boundary line or the end of the text
ScanBreak ==
  /\ scan.pc = "inner"
  /\ IF ScanMore THEN IsBoundary(ScanLine) ELSE TRUE
  /\ scan' = ScanStep(lines, scan)
  /\ UNCHANGED <<lines, names, ix>>
  /\ UNCHANGED <<parseVars, otherVars>>

\* the outer loop ends: return list(task_map.values())
ScanReturn ==
  /\ scan.pc = "outer" /\ ~ScanMore
  /\ scan' = ScanStep(lines, scan)
  /\ UNCHANGED <<lines, names, ix>>
  /\ UNCHANGED <<parseVars, otherVars>>

NextTasks ==
  \/ ScanPlayHeader \/ ScanTaskHeader \/ ScanSkip
  \/ ScanTaskLine \/ ScanBreak \/ ScanReturn

\* the task extractor on long transcripts of few kinds of lines
SpecTasks == InitTasks /\ [][NextTasks]_vars
\* the task extractor on short transcripts of many kinds of lines
SpecShort == InitShort /\ [][NextTasks]_vars

(***************************************************************************)
(* What a transcript says, read off the text without the scanner.  Line     *)
(* numbers are 1-based.  A task header belongs to the latest play header     *)
(* above it and its position is the number of task headers between the two; *)
(* a status line belongs to the task header that is the latest line above   *)
(* it starting with TASK [, PLAY [ or PLAY RECAP, when that line is one.     *)
(***************************************************************************)
TextLine(j) == Strip(lines[j])
LineNos == 1..Len(lines)

IsPlayHeader(j) == StartsWithPlay(TextLine(j)) /\ PlaySearch(TextLine(j))
LastPlayAbove(j) ==
  LET above == {h \in 1..(j - 1) : IsPlayHeader(h)}
  IN IF above = {} THEN 0 ELSE Max(above)

IsTaskHeader(j) ==
  /\ ~StartsWithPlay(TextLine(j))
  /\ StartsWithTask(TextLine(j)) /\ TaskSearch(TextLine(j))
  /\ LastPlayAbove(j) > 0

NoKey == [play_name |-> NoPlay, name |-> "", order |-> -1]
KeyOfHeader(j) ==
  LET a == LastPlayAbove(j)
  IN [play_name |-> PlayGroup1(TextLine(a)),
      name |-> TaskGroup1(TextLine(j)),
      order |-> Cardinality({m \in (a + 1)..(j - 1) : IsTaskHeader(m)})]

\* a line that starts with TASK [, PLAY [ or PLAY RECAP
IsMarkerLine(j) ==
  \/ StartsWithTask(TextLine(j)) \/ StartsWithPlay(TextLine(j))
  \/ StartsWithRecap(TextLine(j))

\* the task header a status line at m belongs to, or 0
OpenHeader(m) ==
  LET above == {n \in 1..(m - 1) : IsMarkerLine(n)}
      b == IF above = {} THEN 0 ELSE Max(above)
  IN IF b > 0 /\ IsTaskHeader(b) THEN b ELSE 0

\* per line: the task header of a status line (0 for any other line)
HeaderTable ==
  [m \in LineNos |->
     IF StatusMatch(TextLine(m)) /\ ~IsMarkerLine(m)
     THEN OpenHeader(m) ELSE 0]

\* per line: the key of a task header (NoKey for any other line)
KeyTable ==
  [j \in LineNos |-> IF IsTaskHeader(j) THEN KeyOfHeader(j) ELSE NoKey]

KeyOfTask(task) ==
  [play_name |-> task.play_name, name |-> task.name, order |-> task.order]
ResultHosts(task) == {task.results[n].hostname : n \in 1..Len(task.results)}
HostAt(m) == StatusGroup2(TextLine(m))
StatusAt(m) == StatusGroup1Lower(TextLine(m))

\* the task headers at j1 < j2 are such a pair
SerialPair(hdr, key, j1, j2) ==
  LET X == key[j1].play_name
      H1 == {HostAt(m) : m \in {n \in LineNos : hdr[n] = j1}}
      H2 == {HostAt(m) : m \in {n \in LineNos : hdr[n] = j2}}
  IN /\ j1 < j2
     /\ key[j1] # NoKey
     /\ key[j1] = key[j2]
     /\ Cardinality({a \in LineNos : IsPlayHeader(a) /\ PlayGroup1(TextLine(a)) = X}) = 2
     /\ H1 # {} /\ H2 # {} /\ H1 \cap H2 = {}

(***************************************************************************)
(* C1  Serial merge.  When PLAY [X] occurs twice and TASK [Y] stands at    *)
(* the same position k among the task headers of both sections, each with  *)
(* status lines, for two disjoint sets of hosts, the extractor returns      *)
(* exactly one ParsedTask (X, Y, k) and the hosts of its results are        *)
(* exactly the hosts of both occurrences.                                  *)
(***************************************************************************)
C1_SerialMerge ==
  scan.pc = "done" =>
    LET hdr == HeaderTable
        key == KeyTable
    IN \A j1, j2 \in LineNos :
         SerialPair(hdr, key, j1, j2) =>
           LET hits == {n \in 1..Len(scan.task_map) :
                          KeyOfTask(scan.task_map[n]) = key[j1]}
           IN /\ Cardinality(hits) = 1
              /\ \A n \in hits :
                   ResultHosts(scan.task_map[n]) =
                     {HostAt(m) : m \in {n2 \in LineNos : hdr[n2] \in {j1, j2}}}

\* a finished scan of a transcript that holds such a pair
C1_Witness ==
  /\ scan.pc = "done"
  /\ \E j1, j2 \in LineNos : SerialPair(HeaderTable, KeyTable, j1, j2)

\* the status lines scanned so far that belong to a task header with this key
ScannedOfKey(hdr, key, k) ==
  {m \in 1..MinOf(scan.i, Len(lines)) : hdr[m] > 0 /\ key[hdr[m]] = k}

ExpectedResult(S, h) ==
  LET m == Max({n \in S : HostAt(n) = h})
  IN ParsedTaskResult(h, StatusAt(m), FailureMsg(lines, m - 1, StatusAt(m)))

(***************************************************************************)
(* C2  Last write wins.  In every state of the scan the results of a       *)
(* ParsedTask are, host by host, the status and the message of the latest   *)
(* status line scanned so far for its key and that host: one result per     *)
(* host, none for another host, nothing left of the earlier lines; and      *)
(* every status line scanned so far under a task header has its host in    *)
(* the task of its key.                                                     *)
(***************************************************************************)
C2_LastWriteWins ==
  LET hdr == HeaderTable
      key == KeyTable
  IN /\ \A n \in 1..Len(scan.task_map) :
          LET task == scan.task_map[n]
              S == ScannedOfKey(hdr, key, KeyOfTask(task))
          IN /\ \A a, b \in 1..Len(task.results) :
                  task.results[a].hostname = task.results[b].hostname => a = b
             /\ \A a \in 1..Len(task.results) :
                  /\ \E m \in S : HostAt(m) = task.results[a].hostname
                  /\ task.results[a] = ExpectedResult(S, task.results[a].hostname)
     /\ \A m \in 1..MinOf(scan.i, Len(lines)) :
          hdr[m] > 0 =>
            \E n \in 1..Len(scan.task_map) :
              /\ KeyOfTask(scan.task_map[n]) = key[hdr[m]]
              /\ HostAt(m) \in ResultHosts(scan.task_map[n])

\* a task that holds the later of two different results scanned for one host,
\* the later one with a failure message
C2_Witness ==
  LET hdr == HeaderTable
      key == KeyTable
  IN \E n \in 1..Len(scan.task_map) :
       LET task == scan.task_map[n]
           S == ScannedOfKey(hdr, key, KeyOfTask(task))
       IN \E m1, m2 \in S :
            /\ m1 < m2
            /\ HostAt(m1) = HostAt(m2)
            /\ StatusAt(m1) # StatusAt(m2)
            /\ \E a \in 1..Len(task.results) :
                 /\ task.results[a].hostname = HostAt(m2)
                 /\ task.results[a].status = StatusAt(m2)
                 /\ task.results[a].message = Some(<<"boom">>)

(***************************************************************************)
(* The play indexer, one loop iteration per step                           *)
(***************************************************************************)
MaxPlayLines == 4
MaxNames == 2

StampedPlayLine(n) == <<STAMP, SP, PIPE, SP, PlayHdr(n)>>

\* the lines of the indexer's texts: headers at the start of a line, after a
\* timestamp and after another header, and a line with no header
IndexLines ==
  { PlayLine("p"), PlayLine("q"), StampedPlayLine("p"),
    <<PlayHdr("q"), SP, PlayHdr("r")>>, <<WORD>> }

\* play_names: the keys of a dict, or a list built without repeats
NameLists ==
  {sq \in UNION {[1..m -> {"p", "q", "r"}] : m \in 0..MaxNames} :
     \A a, b \in 1..Len(sq) : sq[a] = sq[b] => a = b}

InitPlays ==
  /\ lines \in SeqsUpTo(IndexLines, MaxPlayLines)
  /\ names \in NameLists
  /\ ix = IndexInit
  /\ scan = Idle
  /\ ParseIdle
  /\ OtherIdle

\* a line of the text is searched for a header
IndexLine ==
  /\ ix.pc = "scan" /\ ix.line_num <= Len(lines)
  /\ ix' = IndexStep(lines, names, ix)
  /\ UNCHANGED <<lines, names, scan>>
  /\ UNCHANGED <<parseVars, otherVars>>

\* the text is exhausted
IndexLinesDone ==
  /\ ix.pc = "scan" /\ ix.line_num > Len(lines)
  /\ ix' = IndexStep(lines, names, ix)
  /\ UNCHANGED <<lines, names, scan>>
  /\ UNCHANGED <<parseVars, otherVars>>

\* a known name is looked up among the plays found
IndexMissing ==
  /\ ix.pc = "missing" /\ ix.n <= Len(names)
  /\ ix' = IndexStep(lines, names, ix)
  /\ UNCHANGED <<lines, names, scan>>
  /\ UNCHANGED <<parseVars, otherVars>>

\* return plays
IndexReturn ==
  /\ ix.pc = "missing" /\ ix.n > Len(names)
  /\ ix' = IndexStep(lines, names, ix)
  /\ UNCHANGED <<lines, names, scan>>
  /\ UNCHANGED <<parseVars, otherVars>>

NextPlays == IndexLine \/ IndexLinesDone \/ IndexMissing \/ IndexReturn

SpecPlays == InitPlays /\ [][NextPlays]_vars

\* the first line of the text whose header names the play, or 0
FirstHeaderLine(name) ==
  LET hits == {j \in 1..Len(lines) : PlaySearch(lines[j]) /\ PlayGroup1(lines[j]) = name}
  IN IF hits = {} THEN 0 ELSE Min(hits)

NameSet == {names[n] : n \in 1..Len(names)}

(***************************************************************************)
(* C7  In the plays returned each play name appears once; the plays whose  *)
(* header is found in the text come in the order of their first header     *)
(* line, each with that line as its line_number, however often the header  *)
(* is repeated; the order values are 0..n-1 in list order.                 *)
(***************************************************************************)
C7_PlaysIndexed ==
  ix.pc = "done" =>
    LET plays == ix.plays
        N == Len(plays)
    IN /\ \A a, b \in 1..N : plays[a].name = plays[b].name => a = b
       /\ \A a \in 1..N : plays[a].order = a - 1
       /\ \A a \in 1..N :
            plays[a].line_number # NoLine =>
              plays[a].line_number = FirstHeaderLine(plays[a].name)
       /\ \A a, b \in 1..N :
            (a < b /\ plays[a].line_number # NoLine /\ plays[b].line_number # NoLine)
              => plays[a].line_number < plays[b].line_number
       /\ \A nm \in NameSet :
            FirstHeaderLine(nm) # 0 =>
              \E a \in 1..N : plays[a].name = nm /\ plays[a].line_number # NoLine

\* two known plays found, the header of the first of them repeated below the
\* header of the second
C7_Witness ==
  /\ ix.pc = "done"
  /\ \E a, b \in 1..Len(ix.plays) :
       /\ a < b
       /\ ix.plays[a].line_number # NoLine /\ ix.plays[b].line_number # NoLine
       /\ \E j \in 1..Len(lines) :
            /\ j > ix.plays[b].line_number
            /\ PlaySearch(lines[j]) /\ PlayGroup1(lines[j]) = ix.plays[a].name

(***************************************************************************)
(* C8  The names of the plays returned are exactly the known names passed  *)
(* in; a known name with no header in the text is returned with no line    *)
(* number and an order above that of every play found in the text.         *)
(***************************************************************************)
C8_NoKnownPlayDropped ==
  ix.pc = "done" =>
    LET plays == ix.plays
        N == Len(plays)
    IN /\ {plays[a].name : a \in 1..N} = NameSet
       /\ \A nm \in NameSet :
            FirstHeaderLine(nm) = 0 =>
              \E a \in 1..N :
                /\ plays[a].name = nm
                /\ plays[a].line_number = NoLine
                /\ \A b \in 1..N :
                     plays[b].line_number # NoLine => plays[b].order < plays[a].order

\* a known play with no header is returned after a play found in the text
C8_Witness ==
  /\ ix.pc = "done"
  /\ \E a, b \in 1..Len(ix.plays) :
       /\ ix.plays[a].line_number = NoLine
       /\ FirstHeaderLine(ix.plays[a].name) = 0
       /\ ix.plays[b].line_number # NoLine
       /\ names[1] = ix.plays[a].name

(***************************************************************************)
(* parse, one step per stage                                               *)
(***************************************************************************)
MaxContentLines == 3
MaxRuns == 2

StampedLine(rest) == <<STAMP, SP, PIPE, SP>> \o rest

\* the lines of the texts given to parse: blank lines, raw lines, lines with
\* the timestamp prefix, with the prefix and no space after the pipe, and with
\* the prefix after a space
ParseLines ==
  { <<>>, <<SP>>,
    PlayLine("p"), TaskLine("t"), OkLine("h1"),
    StampedLine(PlayLine("p")), StampedLine(TaskLine("t")), StampedLine(OkLine("h1")),
    <<STAMP, SP, PIPE, PlayHdr("p")>>,
    <<SP, STAMP, SP, PIPE, SP, PlayHdr("p")>> }

\* the line endings of a text: LF, CR LF, CR
LineEndings == {<<LF>>, <<CR, LF>>, <<CR>>}

RECURSIVE JoinWith(_, _)
JoinWith(ls, sep) ==
  IF ls = <<>> THEN <<>>
  ELSE IF Len(ls) = 1 THEN ls[1]
  ELSE ls[1] \o sep \o JoinWith(Tail(ls), sep)

ParseInputs ==
  {<<>>} \cup
  {JoinWith(ls, sep) : ls \in SeqsUpTo(ParseLines, MaxContentLines), sep \in LineEndings}

\* the counts of a host in a recap: all seven keys, one key, a key the parser
\* does not read
AllCounts ==
  [key \in {CountKeys[n] : n \in 1..Len(CountKeys)} |-> IF key = "ok" THEN 3 ELSE 1]
CountSamples ==
  { AllCounts, [key \in {"ok"} |-> 2], [key \in {"failed", "retries"} |-> 1] }

RecapItem(h, c) == [hostname |-> h, counts |-> c]
Run(play_names, recap) == [names |-> play_names, recap |-> recap]

\* what the library finds in a text with no play and no recap
EmptyRun == Run(<<>>, <<>>)

\* Play(play_output=content): the one run of a raw text
PlayOf(runs) == IF runs = <<>> THEN EmptyRun ELSE runs[1]

\* few runs, for the texts of ParseInputs
FewRuns ==
  { <<>>, <<EmptyRun>>,
    <<Run(<<>>, <<RecapItem("h1", AllCounts)>>)>>,    \* a recap and no play named
    <<Run(<<"p">>, <<RecapItem("h1", AllCounts)>>)>>,
    <<Run(<<"p">>, <<RecapItem("h1", AllCounts)>>),
      Run(<<"q", "p">>, <<RecapItem("h1", [key \in {"ok"} |-> 2])>>)>> }

\* many runs, for the texts of RecapInputs
Recaps ==
  {<<>>} \cup
  {<<RecapItem(h, c)>> : h \in {"h1", "h2"}, c \in CountSamples} \cup
  {<<RecapItem("h1", c1), RecapItem("h2", c2)>> : c1 \in CountSamples, c2 \in CountSamples} \cup
  {<<RecapItem("h2", c1), RecapItem("h1", c2)>> : c1 \in CountSamples, c2 \in CountSamples}
ManyRuns == UNION {[1..m -> {Run(<<"p">>, r) : r \in Recaps}] : m \in 0..MaxRuns}

RecapInputs ==
  { <<SP, LF>>,
    JoinWith(<<PlayLine("p"), TaskLine("t"), OkLine("h1")>>, <<LF>>),
    JoinWith(<<StampedLine(PlayLine("p")), StampedLine(TaskLine("t")),
               StampedLine(OkLine("h1"))>>, <<LF>>) }

InitParseWith(inputs, runs) ==
  /\ input \in inputs /\ lib \in runs
  /\ raw_content = <<>> /\ parser_type = PyNone /\ pc = "start"
  /\ exc = PyNone /\ tmp = "none" /\ result = EmptyContentResult
  /\ lines = <<>> /\ scan = Idle /\ names = <<>> /\ ix = Idle
  /\ OtherIdle

InitParse == InitParseWith(ParseInputs, FewRuns)
InitRecap == InitParseWith(RecapInputs, ManyRuns)

\* the exceptions the library and the file system may raise
LibraryErrors == {"ValueError", "IndexError"}
FileErrors == {"OSError"}

\* the empty check: return the failure at once
ParseEmpty ==
  /\ pc = "start" /\ IsEmptyContent(input)
  /\ result' = EmptyContentResult
  /\ pc' = "returned"
  /\ UNCHANGED <<input, raw_content, parser_type, lib, exc, tmp>>
  /\ UNCHANGED <<extractVars, otherVars>>

\* the line endings are normalised and the format is detected
ParseDetect ==
  /\ pc = "start" /\ ~IsEmptyContent(input)
  /\ raw_content' = NormalizeLineEndings(input)
  /\ parser_type' = DetectFormat(NormalizeLineEndings(input))
  /\ pc' = "try"
  /\ UNCHANGED <<input, lib, exc, tmp, result>>
  /\ UNCHANGED <<extractVars, otherVars>>

\* _parse_play_output: the library raises or the result is assembled
PlayOutput ==
  /\ pc = "try" /\ parser_type = "play"
  /\ \/ \E e \in LibraryErrors :
          exc' = e /\ pc' = "except" /\ UNCHANGED result
     \/ IF ExtractTasksRaises(raw_content)
        THEN exc' = "RecursionError" /\ pc' = "except" /\ UNCHANGED result
        ELSE /\ result' = ParsePlayOutput(raw_content, PlayOf(lib))
             /\ pc' = "returned" /\ UNCHANGED exc
  /\ UNCHANGED <<input, raw_content, parser_type, lib, tmp>>
  /\ UNCHANGED <<extractVars, otherVars>>

\* _parse_log_file: the scratch file is created and the text written into it
LogFileScratch ==
  /\ pc = "try" /\ parser_type = "logs"
  /\ \/ \E e \in FileErrors :           \* NamedTemporaryFile raises
          exc' = e /\ pc' = "except" /\ UNCHANGED tmp
     \/ \E e \in FileErrors :           \* write or flush raises
          exc' = e /\ pc' = "except" /\ tmp' = "exists"
     \/ tmp' = "exists" /\ pc' = "body" /\ UNCHANGED exc
  /\ UNCHANGED <<input, raw_content, parser_type, lib, result>>
  /\ UNCHANGED <<extractVars, otherVars>>

\* _parse_log_file: the try block; Logs raises or the result is assembled
LogFileBody ==
  /\ pc = "body"
  /\ \/ \E e \in LibraryErrors : exc' = e /\ UNCHANGED result
     \/ IF ExtractTasksRaises(StripTimestamps(raw_content))
        THEN exc' = "RecursionError" /\ UNCHANGED result
        ELSE result' = ParseLogFile(raw_content, lib) /\ UNCHANGED exc
  /\ pc' = "finally"
  /\ UNCHANGED <<input, raw_content, parser_type, lib, tmp>>
  /\ UNCHANGED <<extractVars, otherVars>>

\* _parse_log_file: the finally block removes the scratch file; then the
\* result is returned or the exception goes on to parse
LogFileFinally ==
  /\ pc = "finally"
  /\ tmp' = "deleted"
  /\ pc' = IF exc = PyNone THEN "returned" ELSE "except"
  /\ UNCHANGED <<input, raw_content, parser_type, lib, exc, result>>
  /\ UNCHANGED <<extractVars, otherVars>>

\* parse: the handler of the try block
ParseExcept ==
  /\ pc = "except"
  /\ IF Caught(exc)
     THEN result' = ParsingFailedResult(exc, parser_type) /\ pc' = "returned"
     ELSE pc' = "raised" /\ UNCHANGED result
  /\ UNCHANGED <<input, raw_content, parser_type, lib, exc, tmp>>
  /\ UNCHANGED <<extractVars, otherVars>>

NextParse ==
  \/ ParseEmpty \/ ParseDetect \/ PlayOutput
  \/ LogFileScratch \/ LogFileBody \/ LogFileFinally \/ ParseExcept

\* parse on many texts, the library finding few different runs
SpecParse == InitParse /\ [][NextParse]_vars
\* parse on few texts, the library finding many different runs
SpecRecap == InitRecap /\ [][NextParse]_vars

Failures == {"Empty log content", "No hosts found in log", "Log parsing failed"}

(***************************************************************************)
(* C3  parse is total: whatever the text and whatever is raised after the  *)
(* empty check, the call ends by returning one result, a success or one of  *)
(* the three failures; no exception reaches the caller.                    *)
(***************************************************************************)
C3_ParseTotal ==
  /\ pc # "raised"
  /\ pc = "returned" =>
       \/ result.success /\ result.error = PyNone
       \/ ~result.success /\ result.error \in Failures

\* an exception was raised inside the try block and parse returned
C3_Witness ==
  pc = "returned" /\ exc \in LibraryErrors /\ result.error = "Log parsing failed"

\* the library found a host in the text
HostsRecovered ==
  IF parser_type = "logs"
  THEN \E n \in 1..Len(lib) : lib[n].recap # <<>>
  ELSE PlayOf(lib).recap # <<>>

(***************************************************************************)
(* C4  For a text that is not empty and with no exception raised, parse    *)
(* returns success exactly when the recap gave at least one host, and the  *)
(* failure "No hosts found in log" when it gave none, on the raw and on the *)
(* timestamped path; a successful result has hosts.                        *)
(***************************************************************************)
C4_HostsGate ==
  (pc = "returned" /\ ~IsEmptyContent(input) /\ exc = PyNone) =>
    /\ result.success <=> HostsRecovered
    /\ ~result.success => result.error = "No hosts found in log"
    /\ result.success => result.hosts # <<>>
    /\ result.parser_type = parser_type

\* the no-hosts failure on the timestamped path
C4_Witness ==
  /\ pc = "returned" /\ exc = PyNone /\ parser_type = "logs"
  /\ lib # <<>> /\ result.error = "No hosts found in log"

OnlyWhitespace(s) == \A n \in 1..Len(s) : s[n] \in Whitespace

(***************************************************************************)
(* C5  A text that is empty or holds only whitespace (spaces, CR, LF)      *)
(* gets the failure "Empty log content", and nothing else runs for it: no  *)
(* format is detected, no library call and no extractor is reached.         *)
(***************************************************************************)
C5_EmptyContent ==
  OnlyWhitespace(input) =>
    /\ pc \in {"start", "returned"}
    /\ parser_type = PyNone /\ raw_content = <<>> /\ tmp = "none" /\ exc = PyNone
    /\ pc = "returned" => result = EmptyContentResult

\* a text of CR and LF only was refused
C5_Witness ==
  /\ pc = "returned" /\ input # <<>> /\ OnlyWhitespace(input)
  /\ \E n \in 1..Len(input) : input[n] = CR
  /\ result.error = "Empty log content"

\* the count of a key for a host in one recap (0 when not listed)
CountIn(recap, h, key) ==
  LET hits == {n \in 1..Len(recap) : recap[n].hostname = h}
  IN IF hits = {} THEN 0 ELSE Get(recap[Min(hits)].counts, key, 0)

RECURSIVE SumOver(_, _, _)
SumOver(runs, h, key) ==
  IF runs = <<>> THEN 0
  ELSE CountIn(Head(runs).recap, h, key) + SumOver(Tail(runs), h, key)

HostsListed(runs) ==
  UNION {{runs[n].recap[m].hostname : m \in 1..Len(runs[n].recap)} : n \in 1..Len(runs)}

\* the sections the code sees: every run of a log, the one run of a raw text
Sections == IF parser_type = "logs" THEN lib ELSE <<PlayOf(lib)>>

(***************************************************************************)
(* C6  With several recap sections (the runs of a timestamped log) the     *)
(* result has one ParsedHost per host name, and each of its seven counts   *)
(* is the sum of that count over the sections that list the host.          *)
(***************************************************************************)
C6_RecapSum ==
  (pc = "returned" /\ result.success) =>
    LET hosts == result.hosts
    IN /\ \A a, b \in 1..Len(hosts) : hosts[a].hostname = hosts[b].hostname => a = b
       /\ {hosts[a].hostname : a \in 1..Len(hosts)} = HostsListed(Sections)
       /\ \A a \in 1..Len(hosts) :
            /\ hosts[a].ok = SumOver(Sections, hosts[a].hostname, "ok")
            /\ hosts[a].changed = SumOver(Sections, hosts[a].hostname, "changed")
            /\ hosts[a].failed = SumOver(Sections, hosts[a].hostname, "failed")
            /\ hosts[a].unreachable = SumOver(Sections, hosts[a].hostname, "unreachable")
            /\ hosts[a].skipped = SumOver(Sections, hosts[a].hostname, "skipped")
            /\ hosts[a].rescued = SumOver(Sections, hosts[a].hostname, "rescued")
            /\ hosts[a].ignored = SumOver(Sections, hosts[a].hostname, "ignored")

\* two sections list h1 with ok=2 and ok=3: the result has ok=5
C6_Witness ==
  /\ pc = "returned" /\ result.success /\ parser_type = "logs" /\ Len(lib) = 2
  /\ CountIn(lib[1].recap, "h1", "ok") = 2 /\ CountIn(lib[2].recap, "h1", "ok") = 3
  /\ \E a \in 1..Len(result.hosts) :
       result.hosts[a].hostname = "h1" /\ result.hosts[a].ok = 5

\* the first line of the text that holds more than whitespace
FirstNonBlankLine(s) ==
  LET ls == Split(NormalizeLineEndings(s))
      hits == {n \in 1..Len(ls) : Strip(ls[n]) # <<>>}
  IN ls[Min(hits)]

(***************************************************************************)
(* C9  A text that is not empty is classified as timestamped ("logs") if   *)
(* and only if its first non-blank line, as it stands in the text, begins   *)
(* with the timestamp prefix; otherwise as raw ("play").                    *)
(***************************************************************************)
C9_FormatByFirstLine ==
  (pc \notin {"start", "idle"} /\ ~IsEmptyContent(input)) =>
    /\ parser_type \in {"logs", "play"}
    /\ parser_type = "logs" <=> TimestampMatch(FirstNonBlankLine(input))

\* a line without its timestamp prefix "YYYY-MM-DD HH:MM:SS,mmm | "
WithoutPrefix(line) ==
  IF StartsWith(line, <<STAMP, SP, PIPE, SP>>) THEN Tail0(line, 4)
  ELSE IF StartsWith(line, <<STAMP, SP, PIPE>>) THEN Tail0(line, 3)
  ELSE line

RawEquivalent(content) ==
  LET ls == Split(content)
  IN Join([n \in 1..Len(ls) |-> WithoutPrefix(ls[n])])

(***************************************************************************)
(* C10  Parsing a timestamped text gives the tasks and the plays that       *)
(* parsing the raw text does which is left when the timestamp prefix is     *)
(* taken off every line.                                                    *)
(***************************************************************************)
C10_StrippedEquivalence ==
  (pc = "returned" /\ result.success /\ parser_type = "logs") =>
    LET raw == ParsePlayOutput(RawEquivalent(raw_content),
                               Run(CollectRuns(lib, [all_play_names |-> <<>>,
                                                     all_hosts |-> <<>>]).all_play_names,
                                   <<RecapItem("h1", AllCounts)>>))
    IN /\ result.tasks = raw.tasks
       /\ result.plays = raw.plays

(***************************************************************************)
(* determine_status                                                        *)
(***************************************************************************)
MaxCount == 2

\* faulty variant: an unreachable host is not failed
DetermineStatusFailedOnly(h) ==
  IF h.failed > 0 THEN "failed"
  ELSE IF h.changed > 0 THEN "changed"
  ELSE "ok"

DetermineStatus(h) ==
  IF h.failed > 0 \/ h.unreachable > 0 THEN "failed"
  ELSE IF h.changed > 0 THEN "changed"
  ELSE "ok"

\* the hosts whose seven counts are at most MaxCount
CountedHosts ==
  [hostname : {"h1"}, ok : 0..MaxCount, changed : 0..MaxCount,
   failed : 0..MaxCount, unreachable : 0..MaxCount, skipped : 0..MaxCount,
   rescued : 0..MaxCount, ignored : 0..MaxCount]

InitStatus ==
  /\ host \in CountedHosts
  /\ status = PyNone /\ fm = Idle /\ calls = <<>> /\ files = {}
  /\ req = Idle /\ store = Idle
  /\ lines = <<>> /\ scan = Idle /\ names = <<>> /\ ix = Idle
  /\ ParseIdle

\* status = determine_status(host)
DetermineStatusCall ==
  /\ status = PyNone
  /\ status' = DetermineStatus(host)
  /\ UNCHANGED <<host, fm, calls, files, req, store>>
  /\ UNCHANGED <<extractVars, parseVars>>

NextStatus == DetermineStatusCall

SpecStatus == InitStatus /\ [][NextStatus]_vars

(***************************************************************************)
(* C11  determine_status returns for every host: "failed" exactly when     *)
(* failed > 0 or unreachable > 0, otherwise "changed" exactly when         *)
(* changed > 0, otherwise "ok"; a host that differs only in ok, skipped,   *)
(* rescued and ignored gets the same status.                               *)
(***************************************************************************)
C11_StatusFromCounts ==
  status # PyNone =>
    /\ status \in {"failed", "changed", "ok"}
    /\ status = "failed" <=> (host.failed > 0 \/ host.unreachable > 0)
    /\ status = "changed" <=>
         (host.failed = 0 /\ host.unreachable = 0 /\ host.changed > 0)
    /\ status = "ok" <=>
         (host.failed = 0 /\ host.unreachable = 0 /\ host.changed = 0)
    /\ \A a, b, c, d \in 0..MaxCount :
         DetermineStatus([host EXCEPT !.ok = a, !.skipped = b,
                                      !.rescued = c, !.ignored = d]) = status

\* an unreachable host with no failed task and other counts set got "failed"
C11_Witness ==
  /\ status = "failed"
  /\ host.failed = 0 /\ host.unreachable > 0
  /\ host.ok > 0 /\ host.changed > 0 /\ host.skipped > 0

(***************************************************************************)
(* _extract_failure_message, one statement or loop iteration per step      *)
(***************************************************************************)
\* the locals before the first statement; read and searched record the
\* indices of the lines the loops have read and the fallback has searched
FmInit(idx) ==
  [pc |-> "same_line", idx |-> idx, j |-> 0, json_lines |-> <<>>, msg |-> None,
   read |-> {}, looked |-> {}, searched |-> {}]

\* the arrow on the status line: the one-line parse, or on to the accumulation
FmSameLineStep(ls, f) ==
  LET status_line == At(ls, f.idx)
      arrow_idx == Find(status_line, ArrowPat)
      json_str == Strip(Tail0(status_line, arrow_idx + 2))
  IN IF arrow_idx = -1 THEN [f EXCEPT !.pc = "next_line"]
     ELSE IF ParseMsgRaises(json_str) THEN [f EXCEPT !.pc = "raised"]
     ELSE IF Truthy(ParseMsgFromJson(json_str))
     THEN [f EXCEPT !.pc = "returned", !.msg = ParseMsgFromJson(json_str)]
     ELSE [f EXCEPT !.pc = "same_loop", !.json_lines = <<json_str>>,
                    !.j = f.idx + 1]

\* one iteration of an accumulation loop, or its end
FmLoopStep(ls, f, after) ==
  IF f.j < AccumulateStop(f.idx, Len(ls))
  THEN LET piece == Strip(At(ls, f.j))
       IN [f EXCEPT !.json_lines = Append(@, piece),
                    !.read = @ \cup {f.j},
                    !.j = IF piece = <<RBRACE>> THEN @ ELSE @ + 1,
                    !.pc = IF piece = <<RBRACE>> THEN after ELSE @]
  ELSE [f EXCEPT !.pc = after]

\* json_text = "\n".join(json_lines) is parsed; on failure go on to `after`
FmParseStep(f, after) ==
  LET json_text == Join(f.json_lines)
  IN IF ParseMsgRaises(json_text) THEN [f EXCEPT !.pc = "raised"]
     ELSE IF Truthy(ParseMsgFromJson(json_text))
     THEN [f EXCEPT !.pc = "returned", !.msg = ParseMsgFromJson(json_text)]
     ELSE after

\* the arrow at the start of the next line, or on to the fallback
FmNextLineStep(ls, f) ==
  IF f.idx + 1 < Len(ls) /\ StartsWith(Strip(At(ls, f.idx + 1)), ArrowPat)
  THEN [f EXCEPT !.pc = "next_loop",
                 !.json_lines = <<Strip(Tail0(Strip(At(ls, f.idx + 1)), 2))>>,
                 !.read = @ \cup {f.idx + 1},
                 !.j = f.idx + 2]
  ELSE [f EXCEPT !.pc = "fallback", !.j = f.idx]

\* one iteration of the fallback loop, or its end
FmFallbackStep(ls, f) ==
  IF f.j < FallbackStop(f.idx, Len(ls))
  THEN LET line == Strip(At(ls, f.j))
       IN IF FallbackBreak(line)
          THEN [f EXCEPT !.pc = "returned", !.msg = None, !.looked = @ \cup {f.j}]
          ELSE IF MsgRegexHits(line) # {}
          THEN [f EXCEPT !.pc = "returned",
                         !.msg = LET raw == line[Min(MsgRegexHits(line))].a
                                 IN Some(IF raw = "" THEN <<>> ELSE <<raw>>),
                         !.looked = @ \cup {f.j}, !.searched = @ \cup {f.j}]
          ELSE [f EXCEPT !.j = @ + 1,
                         !.looked = @ \cup {f.j}, !.searched = @ \cup {f.j}]
  ELSE [f EXCEPT !.pc = "returned", !.msg = None]

FmSameLine ==
  /\ fm.pc = "same_line"
  /\ fm' = FmSameLineStep(lines, fm)
  /\ UNCHANGED <<host, status, calls, files, req, store, lines, scan, names, ix>>
  /\ UNCHANGED parseVars

FmSameLoop ==
  /\ fm.pc = "same_loop"
  /\ fm' = FmLoopStep(lines, fm, "same_parse")
  /\ UNCHANGED <<host, status, calls, files, req, store, lines, scan, names, ix>>
  /\ UNCHANGED parseVars

FmSameParse ==
  /\ fm.pc = "same_parse"
  /\ fm' = FmParseStep(fm, [fm EXCEPT !.pc = "next_line"])
  /\ UNCHANGED <<host, status, calls, files, req, store, lines, scan, names, ix>>
  /\ UNCHANGED parseVars

FmNextLine ==
  /\ fm.pc = "next_line"
  /\ fm' = FmNextLineStep(lines, fm)
  /\ UNCHANGED <<host, status, calls, files, req, store, lines, scan, names, ix>>
  /\ UNCHANGED parseVars

FmNextLoop ==
  /\ fm.pc = "next_loop"
  /\ fm' = FmLoopStep(lines, fm, "next_parse")
  /\ UNCHANGED <<host, status, calls, files, req, store, lines, scan, names, ix>>
  /\ UNCHANGED parseVars

FmNextParse ==
  /\ fm.pc = "next_parse"
  /\ fm' = FmParseStep(fm, [fm EXCEPT !.pc = "fallback", !.j = fm.idx])
  /\ UNCHANGED <<host, status, calls, files, req, store, lines, scan, names, ix>>
  /\ UNCHANGED parseVars

FmFallback ==
  /\ fm.pc = "fallback"
  /\ fm' = FmFallbackStep(lines, fm)
  /\ UNCHANGED <<host, status, calls, files, req, store, lines, scan, names, ix>>
  /\ UNCHANGED parseVars

NextMessage ==
  \/ FmSameLine \/ FmSameLoop \/ FmSameParse
  \/ FmNextLine \/ FmNextLoop \/ FmNextParse \/ FmFallback

MaxAfter == 3

\* a failed status line with the payload, or the start of it, after the arrow
FailedWith(payload) == <<StatusTok("failed", "h1"), SP, ARROW, SP, LBRACE>> \o payload
ArrowLine(payload) == <<ARROW, SP, LBRACE>> \o payload

\* the status lines of the short texts
StatusLines ==
  { <<StatusTok("fatal", "h1")>>,
    FailedWith(<<>>),
    FailedWith(<<MsgMember("str", "boom"), RBRACE>>),
    FailedWith(<<MsgMember("str", ""), RBRACE>>),
    FailedWith(<<MsgMember("list", "a"), RBRACE>>),
    FailedWith(<<OtherMember, RBRACE>>),
    FailedWith(<<DeepMember>>) }

\* the lines that follow the status line in the short texts
AfterLines ==
  { <<>>,
    ArrowLine(<<>>),
    ArrowLine(<<MsgMember("str", "say \\\"hi\\\""), RBRACE>>),
    ArrowLine(<<MsgMember("list", "a"), RBRACE>>),
    <<SP, MsgMember("str", "boom")>>,
    <<SP, RBRACE>>,
    OkLine("h2"),
    TaskLine("u") }

InitMessageWith(texts, idxs) ==
  /\ lines \in texts
  /\ \E idx \in idxs : fm = FmInit(idx)
  /\ host = Idle /\ status = PyNone /\ calls = <<>> /\ files = {}
  /\ req = Idle /\ store = Idle
  /\ scan = Idle /\ names = <<>> /\ ix = Idle
  /\ ParseIdle

\* a status line at index 0 and up to MaxAfter lines after it
InitMessage ==
  InitMessageWith({<<s>> \o rest : s \in StatusLines,
                                   rest \in {<<>>} \cup SeqsUpTo(AfterLines, MaxAfter)},
                  {0})

SpecMessage == InitMessage /\ [][NextMessage]_vars

(***************************************************************************)
(* The steps against the function as a whole: the call returns what        *)
(* ExtractFailureMessage gives and raises when ExtractFailureMessageRaises *)
(* says so.                                                                *)
(***************************************************************************)
FmStepsAgree ==
  /\ fm.pc = "returned" =>
       /\ ~ExtractFailureMessageRaises(lines, fm.idx)
       /\ fm.msg = ExtractFailureMessage(lines, fm.idx)
  /\ fm.pc = "raised" => ExtractFailureMessageRaises(lines, fm.idx)

\* the text after the arrow of the status line, and whether there is an arrow
HasArrow(ls, idx) == Find(At(ls, idx), ArrowPat) # -1
AfterArrow(ls, idx) ==
  Strip(Tail0(At(ls, idx), Find(At(ls, idx), ArrowPat) + 2))

\* a complete object with a msg field, and the text of that msg
HasMsgField(s) ==
  IsJsonObject(s) /\ \E n \in 1..Len(NoSpace(s)) : IsMsgMember(NoSpace(s)[n])
MsgField(s) ==
  LET t == NoSpace(s)
  IN MsgText(t[Max({n \in 1..Len(t) : IsMsgMember(t[n])})])

\* `first` and the lines after line number `from` (1-based), up to and
\* including the first one that consists of "}" only
CompletedFrom(ls, first, from) ==
  LET closers == {n \in (from + 1)..Len(ls) : Strip(ls[n]) = <<RBRACE>>}
      last == IF closers = {} THEN Len(ls) ELSE Min(closers)
  IN Join(<<first>> \o [n \in 1..(last - from) |-> Strip(ls[from + n])])

(***************************************************************************)
(* C12  A failed status line with the arrow marker: when the text after    *)
(* the arrow is a complete object with a msg field, the message returned   *)
(* is that msg (a list joined with newlines); otherwise, when that text    *)
(* and the following lines up to and including the first line that is      *)
(* only "}" make an object with a msg field, the message returned is the   *)
(* msg of that object.                                                     *)
(***************************************************************************)
C12_ArrowPayload ==
  (fm.pc = "returned" /\ HasArrow(lines, fm.idx)) =>
    LET after == AfterArrow(lines, fm.idx)
        completed == CompletedFrom(lines, after, fm.idx + 1)
    IN IF HasMsgField(after) THEN fm.msg = Some(MsgField(after))
       ELSE HasMsgField(completed) => fm.msg = Some(MsgField(completed))

(***************************************************************************)
(* parse on the texts of a failed task: a play, a task, a failed status    *)
(* line with or without a payload, lines after it, the status line of a    *)
(* second host                                                             *)
(***************************************************************************)
MaxPayloadLines == 2

\* the failed status lines: no payload, an open object, an object without a
\* msg, an object with a msg, a value nested too deep
PayloadStatusLines ==
  { <<StatusTok("failed", "h1")>>,
    FailedWith(<<>>),
    FailedWith(<<OtherMember, RBRACE>>),
    FailedWith(<<MsgMember("str", "boom"), RBRACE>>),
    FailedWith(<<DeepMember>>) }

\* the lines of a payload after the status line
PayloadLines ==
  { <<SP, OtherMember, COMMA>>, <<SP, OtherMember>>, <<WORD>>,
    <<RBRACE>>, ArrowLine(<<OtherMember>>), ArrowLine(<<DeepMember>>) }

PayloadTexts ==
  { <<PlayLine("p"), TaskLine("t"), s>> \o rest \o <<OkLine("h2")>> :
      s \in PayloadStatusLines,
      rest \in {<<>>} \cup SeqsUpTo(PayloadLines, MaxPayloadLines) }

PayloadInputs ==
  {<<SP>>} \cup
  {Join(ls) : ls \in PayloadTexts} \cup
  {Join([n \in 1..Len(ls) |-> StampedLine(ls[n])]) : ls \in PayloadTexts}

PayloadRuns ==
  { <<>>, <<Run(<<"p">>, <<RecapItem("h1", AllCounts), RecapItem("h2", AllCounts)>>)>> }

InitPayload == InitParseWith(PayloadInputs, PayloadRuns)

\* parse on the texts of a failed task
SpecPayload == InitPayload /\ [][NextParse]_vars

\* the text the task extractor is given
TaskText ==
  IF parser_type = "logs" THEN StripTimestamps(raw_content) ELSE raw_content

\* no strategy finds a msg for the status line at idx: none in the text after
\* the arrow nor in the lines gathered after it, on the status line or on the
\* next one, and none for the pattern of the fallback
StrategiesFail(ls, idx) ==
  /\ HasArrow(ls, idx) =>
       /\ ~HasMsgField(AfterArrow(ls, idx))
       /\ ~HasMsgField(Join(Accumulate(ls, <<AfterArrow(ls, idx)>>, idx + 1,
                                       AccumulateStop(idx, Len(ls)))))
  /\ (idx + 1 < Len(ls) /\ StartsWith(Strip(At(ls, idx + 1)), ArrowPat)) =>
       ~HasMsgField(Join(Accumulate(ls, <<Strip(Tail0(Strip(At(ls, idx + 1)), 2))>>,
                                    idx + 2, AccumulateStop(idx, Len(ls)))))
  /\ FallbackScan(ls, idx, FallbackStop(idx, Len(ls))) = None

\* the indices of the failed and fatal status lines of a text
FailedLines(ls) ==
  {idx \in 0..(Len(ls) - 1) :
     /\ StatusMatch(Strip(At(ls, idx)))
     /\ StatusGroup1Lower(Strip(At(ls, idx))) \in {"failed", "fatal"}}

\* a line without its payload: a header or a status line up to the host,
\* nothing of any other line
PayloadFreeLine(line) ==
  LET keep == {n \in 1..Len(line) : line[n].k \in {"status", "PLAY [", "TASK ["}}
  IN IF keep = {} THEN <<>> ELSE SubSeq(line, 1, Min(keep))

PayloadFree(content) ==
  LET ls == Split(content)
  IN Join([n \in 1..Len(ls) |-> PayloadFreeLine(ls[n])])

\* what parse returns for a text when nothing is raised
Outcome(content) ==
  IF DetectFormat(content) = "logs"
  THEN ParseLogFile(content, lib) ELSE ParsePlayOutput(content, PlayOf(lib))

(***************************************************************************)
(* C13  When no strategy finds a message for the failed status lines of a  *)
(* text, and the library and the scratch file raise nothing, parse returns *)
(* what it returns for the same text without the payloads: the same        *)
(* success or failure, and the same tasks, in which the failed host has    *)
(* its status and no message and the hosts of the later lines follow.      *)
(***************************************************************************)
C13_NullMessage ==
  ( /\ pc = "returned"
    /\ ~IsEmptyContent(input)
    /\ exc \notin (LibraryErrors \cup FileErrors)
    /\ \A idx \in FailedLines(Split(TaskText)) :
         StrategiesFail(Split(TaskText), idx) ) =>
    /\ result.success = Outcome(PayloadFree(raw_content)).success
    /\ result.error = Outcome(PayloadFree(raw_content)).error
    /\ result.tasks = Outcome(PayloadFree(raw_content)).tasks
    /\ result.success =>
         \E n \in 1..Len(result.tasks) :
           result.tasks[n].results =
             << ParsedTaskResult("h1", "failed", None),
                ParsedTaskResult("h2", "ok", None) >>

(***************************************************************************)
(* Two parse calls in two threads, one statement that touches the          *)
(* temporary directory per step.  A scratch file is known by its path; the *)
(* model remembers which call made it.  Here lib gives, for each text, the *)
(* runs the library finds in it: Logs reads the text from the file it is   *)
(* pointed at.                                                             *)
(***************************************************************************)
Threads == {1, 2}

\* the names the temporary directory can give to a scratch file
Paths == {"tmpA.log", "tmpB.log"}

\* faulty variant: the file is opened under a name whether or not it exists
FreshPathsAny(fs) == Paths

\* NamedTemporaryFile: a name no existing file has (the file is created with
\* O_EXCL)
FreshPaths(fs) == Paths \ DOMAIN fs

\* the file system with the file at path p made, overwritten or removed
WithFile(fs, p, owner, content) ==
  [q \in DOMAIN fs \cup {p} |->
     IF q = p THEN [owner |-> owner, content |-> content] ELSE fs[q]]
WithoutFile(fs, p) == [q \in DOMAIN fs \ {p} |-> fs[q]]
NoFiles == [q \in {} |-> [owner |-> 0, content |-> <<>>]]

\* the texts of the calls: blank, raw, and two timestamped texts
StampedText(h) ==
  JoinWith(<<StampedLine(PlayLine("p")), StampedLine(TaskLine("t")),
             StampedLine(OkLine(h))>>, <<LF>>)
ThreadInputs ==
  { <<SP>>,
    JoinWith(<<PlayLine("p"), TaskLine("t"), OkLine("h1")>>, <<LF>>),
    StampedText("h1"), StampedText("h2") }

\* what the library may find in a text
ThreadRuns ==
  { <<>>, <<Run(<<"p">>, <<RecapItem("h1", AllCounts)>>)>> }

\* what the library finds in the text it is given: nothing in a text that is
\* not one of the calls' texts, such as that of a file not yet written
LibOf(text) == IF text \in DOMAIN lib THEN lib[text] ELSE <<>>

\* a call before its first statement
CallInit(content) ==
  [pc |-> "start", input |-> content, raw_content |-> <<>>, parser_type |-> PyNone,
   tmp_path |-> PyNone, exc |-> PyNone, result |-> EmptyContentResult,
   foreign |-> FALSE, overlapped |-> FALSE]

InitThreads ==
  /\ calls \in [Threads -> {CallInit(c) : c \in ThreadInputs}]
  /\ lib \in [(ThreadInputs \ {<<SP>>}) -> ThreadRuns]
  /\ files = NoFiles
  /\ req = Idle /\ store = Idle
  /\ host = Idle /\ status = PyNone /\ fm = Idle
  /\ lines = <<>> /\ scan = Idle /\ names = <<>> /\ ix = Idle
  /\ input = <<>> /\ raw_content = <<>> /\ parser_type = PyNone /\ pc = "idle"
  /\ exc = PyNone /\ tmp = "none" /\ result = EmptyContentResult

threadFrame == <<req, store, host, status, fm, lines, scan, names, ix, input, raw_content, parser_type, pc, exc, tmp, result, lib>>

\* parse, lines 98-109: the empty check, the line endings, the format
ThreadStart(t) ==
  LET c == calls[t]
  IN /\ c.pc = "start"
     /\ calls' = [calls EXCEPT ![t] =
          IF IsEmptyContent(c.input)
          THEN [c EXCEPT !.pc = "returned", !.result = EmptyContentResult]
          ELSE [c EXCEPT !.pc = "try",
                         !.raw_content = NormalizeLineEndings(c.input),
                         !.parser_type = DetectFormat(NormalizeLineEndings(c.input))]]
     /\ UNCHANGED files

\* _parse_play_output: nothing outside the call is touched
ThreadPlayOutput(t) ==
  LET c == calls[t]
  IN /\ c.pc = "try" /\ c.parser_type = "play"
     /\ \/ \E e \in LibraryErrors :
             calls' = [calls EXCEPT ![t] = [c EXCEPT !.pc = "except", !.exc = e]]
        \/ calls' = [calls EXCEPT ![t] =
             IF ExtractTasksRaises(c.raw_content)
             THEN [c EXCEPT !.pc = "except", !.exc = "RecursionError"]
             ELSE [c EXCEPT !.pc = "returned",
                            !.result = ParsePlayOutput(c.raw_content,
                                                       PlayOf(LibOf(c.raw_content)))]]
     /\ UNCHANGED files

\* NamedTemporaryFile(mode="w", suffix=".log", delete=False)
ThreadCreate(t) ==
  LET c == calls[t]
  IN /\ c.pc = "try" /\ c.parser_type = "logs"
     /\ \/ \E e \in FileErrors :
             /\ calls' = [calls EXCEPT ![t] = [c EXCEPT !.pc = "except", !.exc = e]]
             /\ UNCHANGED files
        \/ \E p \in FreshPaths(files) :
             /\ calls' = [calls EXCEPT ![t] =
                  [c EXCEPT !.pc = "write", !.tmp_path = p,
                            !.overlapped = DOMAIN files # {},
                            !.foreign = @ \/ p \in DOMAIN files]]
             /\ files' = WithFile(files, p, t, <<>>)

\* tmp_file.write(content); tmp_file.flush(); the file is closed
ThreadWrite(t) ==
  LET c == calls[t]
  IN /\ c.pc = "write"
     /\ \/ \E e \in FileErrors :
             /\ calls' = [calls EXCEPT ![t] = [c EXCEPT !.pc = "except", !.exc = e]]
             /\ UNCHANGED files
        \/ /\ calls' = [calls EXCEPT ![t] =
                [c EXCEPT !.pc = "body",
                          !.foreign = @ \/ files[c.tmp_path].owner # t]]
           /\ files' = WithFile(files, c.tmp_path, files[c.tmp_path].owner,
                                c.raw_content)

\* the try block: Logs(log_file=tmp_path) reads the file, the rest works on
\* the call's own text
ThreadBody(t) ==
  LET c == calls[t]
      there == c.tmp_path \in DOMAIN files
      text == files[c.tmp_path].content
  IN /\ c.pc = "body"
     /\ \/ \E e \in LibraryErrors :
             calls' = [calls EXCEPT ![t] = [c EXCEPT !.pc = "finally", !.exc = e]]
        \/ calls' = [calls EXCEPT ![t] =
             IF ~there
             THEN [c EXCEPT !.pc = "finally", !.exc = "FileNotFoundError"]
             ELSE IF ExtractTasksRaises(StripTimestamps(c.raw_content))
             THEN [c EXCEPT !.pc = "finally", !.exc = "RecursionError",
                            !.foreign = @ \/ files[c.tmp_path].owner # t]
             ELSE [c EXCEPT !.pc = "finally",
                            !.result = ParseLogFile(c.raw_content, LibOf(text)),
                            !.foreign = @ \/ files[c.tmp_path].owner # t]]
     /\ UNCHANGED files

\* finally: os.unlink(tmp_path), an OSError is passed over
ThreadUnlink(t) ==
  LET c == calls[t]
  IN /\ c.pc = "finally"
     /\ IF c.tmp_path \in DOMAIN files
        THEN /\ files' = WithoutFile(files, c.tmp_path)
             /\ calls' = [calls EXCEPT ![t] =
                  [c EXCEPT !.pc = IF c.exc = PyNone THEN "returned" ELSE "except",
                            !.foreign = @ \/ files[c.tmp_path].owner # t]]
        ELSE /\ UNCHANGED files
             /\ calls' = [calls EXCEPT ![t] =
                  [c EXCEPT !.pc = IF c.exc = PyNone THEN "returned" ELSE "except"]]

\* parse: except Exception
ThreadExcept(t) ==
  LET c == calls[t]
  IN /\ c.pc = "except"
     /\ calls' = [calls EXCEPT ![t] =
          IF Caught(c.exc)
          THEN [c EXCEPT !.pc = "returned",
                         !.result = ParsingFailedResult(c.exc, c.parser_type)]
          ELSE [c EXCEPT !.pc = "raised"]]
     /\ UNCHANGED files

CallStart == (\E t \in Threads : ThreadStart(t)) /\ UNCHANGED threadFrame
CallPlayOutput == (\E t \in Threads : ThreadPlayOutput(t)) /\ UNCHANGED threadFrame
CallCreate == (\E t \in Threads : ThreadCreate(t)) /\ UNCHANGED threadFrame
CallWrite == (\E t \in Threads : ThreadWrite(t)) /\ UNCHANGED threadFrame
CallBody == (\E t \in Threads : ThreadBody(t)) /\ UNCHANGED threadFrame
CallUnlink == (\E t \in Threads : ThreadUnlink(t)) /\ UNCHANGED threadFrame
CallExcept == (\E t \in Threads : ThreadExcept(t)) /\ UNCHANGED threadFrame

NextThreads ==
  \/ CallStart \/ CallPlayOutput \/ CallCreate \/ CallWrite
  \/ CallBody \/ CallUnlink \/ CallExcept

SpecThreads == InitThreads /\ [][NextThreads]_vars

\* the results a call with this text can return when it runs alone and meets
\* the exception e, or none
AloneResult(content, e) ==
  LET normal == NormalizeLineEndings(content)
      type == DetectFormat(normal)
  IN IF IsEmptyContent(content) THEN EmptyContentResult
     ELSE IF e # PyNone THEN ParsingFailedResult(e, type)
     ELSE IF type = "logs" THEN ParseLogFile(normal, LibOf(normal))
     ELSE ParsePlayOutput(normal, PlayOf(LibOf(normal)))

(***************************************************************************)
(* C14  Two concurrent parse calls, under every interleaving of their      *)
(* steps: a call that has returned returned what it returns alone (for the *)
(* exception the library or its own file raised, if any); no call has read, *)
(* written or removed a scratch file another call made, none found its own *)
(* file gone, and a scratch file on disk holds nothing but the text of the *)
(* call that made it.                                                      *)
(***************************************************************************)
C14_CallsIsolated ==
  /\ \A t \in Threads :
       /\ ~calls[t].foreign
       /\ calls[t].exc \in {PyNone, "RecursionError"} \cup LibraryErrors \cup FileErrors
       /\ calls[t].pc = "returned" =>
            calls[t].result = AloneResult(calls[t].input, calls[t].exc)
  /\ \A p \in DOMAIN files :
       files[p].content \in {<<>>, calls[files[p].owner].raw_content}

\* both calls returned a success for different timestamped texts, the second
\* file made while the first one was on disk
C14_Witness ==
  /\ \A t \in Threads :
       /\ calls[t].pc = "returned" /\ calls[t].parser_type = "logs"
       /\ calls[t].result.success
  /\ calls[1].input # calls[2].input
  /\ calls[1].result # calls[2].result
  /\ \E t \in Threads : calls[t].overlapped

\* the task headers (line numbers) between the latest play header above line j
\* and line j
HeadersSincePlay(j) ==
  {m \in (LastPlayAbove(j) + 1)..(j - 1) : IsTaskHeader(m)}

(***************************************************************************)
(* C15  The order given to a matched task header is the number of matched  *)
(* task headers between the most recent matched play header and it: 0 for  *)
(* the first one after every PLAY [X], whatever earlier sections of X      *)
(* held.  The scanner has this order in hand while it reads the lines of   *)
(* the task, and every ParsedTask carries the order of the header it was   *)
(* made at.                                                                *)
(***************************************************************************)
C15_OrderSincePlayHeader ==
  /\ scan.pc = "inner" =>
       /\ IsTaskHeader(scan.task_line_number)
       /\ scan.order = Cardinality(HeadersSincePlay(scan.task_line_number))
       /\ scan.current_play = PlayGroup1(TextLine(LastPlayAbove(scan.task_line_number)))
  /\ \A n \in 1..Len(scan.task_map) :
       LET task == scan.task_map[n]
       IN /\ IsTaskHeader(task.line_number)
          /\ task.order = Cardinality(HeadersSincePlay(task.line_number))
          /\ task.play_name = PlayGroup1(TextLine(LastPlayAbove(task.line_number)))

\* the first task header after the second PLAY [p] has order 0, the first
\* section of p having held two task headers
C15_Witness ==
  /\ scan.pc = "inner" /\ scan.order = 0
  /\ \E a, b \in LineNos :
       /\ a < b /\ b < scan.task_line_number
       /\ IsPlayHeader(a) /\ IsPlayHeader(b)
       /\ LastPlayAbove(b) = a /\ LastPlayAbove(scan.task_line_number) = b
       /\ PlayGroup1(TextLine(a)) = PlayGroup1(TextLine(b))
       /\ Cardinality({m \in (a + 1)..(b - 1) : IsTaskHeader(m)}) = 2

(***************************************************************************)
(* C16  The line_number of every ParsedTask returned is the line number of *)
(* the earliest task header of the text that has the task's key (play      *)
(* name, task name, order), whether or not status lines follow that        *)
(* earliest header.                                                        *)
(***************************************************************************)
C16_FirstHeaderLine ==
  scan.pc = "done" =>
    LET key == KeyTable
    IN \A n \in 1..Len(scan.task_map) :
         scan.task_map[n].line_number =
           Min({j \in LineNos : key[j] = KeyOfTask(scan.task_map[n])})

\* the line the scanner reads in this step, by its line number
LineRead == scan.i + 1

\* the tasks of tm other than the one with key k, in order
OtherTasks(tm, k) == SelectSeq(tm, LAMBDA task : KeyOfTask(task) # k)

\* the results of the task with key k in tm for hosts other than h, in order
OtherResults(tm, k, h) ==
  LET hits == {n \in 1..Len(tm) : KeyOfTask(tm[n]) = k}
  IN IF hits = {} THEN <<>>
     ELSE SelectSeq(tm[Min(hits)].results, LAMBDA r : r.hostname # h)

\* a step of the scanner records the status line it reads in the task of key
\* k and in no other way changes the tasks
RecordsUnder(k) ==
  LET h == HostAt(LineRead)
      r == ParsedTaskResult(h, StatusAt(LineRead),
                            FailureMsg(lines, scan.i, StatusAt(LineRead)))
      hits == {n \in 1..Len(scan'.task_map) : KeyOfTask(scan'.task_map[n]) = k}
  IN /\ Cardinality(hits) = 1
     /\ \A n \in hits :
          scan'.task_map[n].results = Append(OtherResults(scan.task_map, k, h), r)
     /\ OtherTasks(scan'.task_map, k) = OtherTasks(scan.task_map, k)

(***************************************************************************)
(* C17  Every step of the scanner that goes past a matched status line     *)
(* whose latest line above starting with TASK [, PLAY [ or PLAY RECAP is a *)
(* task header of a play records the host's result in the task of that     *)
(* header and in no other; every other step, past a line that starts       *)
(* with one of the three markers, past a status line with no such header   *)
(* above it or past any other line, leaves all tasks as they are.          *)
(***************************************************************************)
C17_StatusLineAttribution ==
  [][ IF /\ scan'.i = scan.i + 1
         /\ LineRead \in LineNos
         /\ HeaderTable[LineRead] > 0
      THEN RecordsUnder(KeyTable[HeaderTable[LineRead]])
      ELSE scan'.task_map = scan.task_map ]_vars

\* a finished scan of a text with a status line before any play, which went
\* to no task, and a status line under a task header, which went to its task
C17_Witness ==
  /\ scan.pc = "done"
  /\ Len(scan.task_map) = 1
  /\ \E m1, m2 \in LineNos :
       /\ m1 < m2
       /\ StatusMatch(TextLine(m1)) /\ LastPlayAbove(m1) = 0
       /\ HeaderTable[m1] = 0 /\ HeaderTable[m2] > 0
       /\ HostAt(m1) # HostAt(m2)
       /\ ResultHosts(scan.task_map[1]) = {HostAt(m2)}

\* the text with the payload of the next line moved onto the status line:
\* line idx + 1 (from its arrow on) is put after the status line, one space
\* between them
PayloadOnStatusLine(ls, idx) ==
  [n \in 1..(Len(ls) - 1) |->
     IF n < idx + 1 THEN ls[n]
     ELSE IF n = idx + 1 THEN ls[n] \o <<SP>> \o Strip(ls[n + 1])
     ELSE ls[n + 1]]

(***************************************************************************)
(* C18  When the status line holds no arrow and the line after it begins   *)
(* with "=> {", the message returned is the one returned for the text      *)
(* whose status line carries that payload itself; so a complete one-line   *)
(* object with a msg field on the next line yields that msg whatever       *)
(* lines follow.                                                           *)
(***************************************************************************)
C18_NextLinePayload ==
  ( /\ fm.pc = "returned"
    /\ ~HasArrow(lines, fm.idx)
    /\ fm.idx + 1 < Len(lines)
    /\ StartsWith(Strip(At(lines, fm.idx + 1)), ArrowPat) ) =>
    /\ fm.msg = ExtractFailureMessage(PayloadOnStatusLine(lines, fm.idx), fm.idx)
    /\ HasMsgField(Strip(Tail0(Strip(At(lines, fm.idx + 1)), 2))) =>
         fm.msg = Some(MsgField(Strip(Tail0(Strip(At(lines, fm.idx + 1)), 2))))

(***************************************************************************)
(* _extract_failure_message on long payloads: an object of one member per  *)
(* line, its msg and its closing brace at chosen offsets from the status   *)
(* line, on the status line or on the line after it                        *)
(***************************************************************************)
MaxSpan == 101

\* the offsets around the two caps and at the start
Offsets ==
  {2, 3} \cup ((FallbackCap - 1)..(FallbackCap + 1))
         \cup ((AccumulateCap - 1)..MaxSpan)

\* the line at offset `off` from the status line
SpanLine(kind, off, msgAt, closeAt, taskAt) ==
  IF off = 0
  THEN (IF kind = "same" THEN FailedWith(<<>>) ELSE <<StatusTok("fatal", "h1")>>)
  ELSE IF off = 1 /\ kind = "next" THEN ArrowLine(<<>>)
  ELSE IF off = closeAt THEN <<RBRACE>>
  ELSE IF off = taskAt THEN TaskLine("u")
  ELSE LET member == IF off = msgAt THEN MsgMember("str", "boom") ELSE OtherMember
       IN IF off = closeAt - 1 THEN <<SP, member>> ELSE <<SP, member, COMMA>>

\* `pre` lines, the status line, and the lines up to the closing brace
SpanText(pre, kind, msgAt, closeAt, taskAt) ==
  [n \in 1..(pre + closeAt + 1) |->
     IF n <= pre THEN <<WORD>>
     ELSE SpanLine(kind, n - pre - 1, msgAt, closeAt, taskAt)]

SpanTexts(pre) ==
  { SpanText(pre, kind, msgAt, closeAt, taskAt) :
      kind \in {"same", "next"},
      msgAt \in Offsets \ {MaxSpan},
      closeAt \in {c \in Offsets : c > 3},
      taskAt \in {0, 3, FallbackCap - 1} }

InitCaps ==
  \E pre \in {0, 1} : InitMessageWith(SpanTexts(pre), {pre})

SpecCaps == InitCaps /\ [][NextMessage]_vars

(***************************************************************************)
(* C19  In one extraction anchored at line index k: an accumulation holds  *)
(* at most 100 lines, and no accumulation reads a line at index k + 100 or *)
(* beyond; the fallback looks at no more than 50 lines, all of them at     *)
(* indices k .. k + 49; a line starting with TASK [ or PLAY [ that the     *)
(* fallback looks at is not searched and is the last line it looks at.     *)
(***************************************************************************)
C19_ScanCaps ==
  /\ Len(fm.json_lines) <= 100
  /\ \A j \in fm.read : fm.idx < j /\ j < fm.idx + 100
  /\ Cardinality(fm.looked) <= 50
  /\ \A j \in fm.looked : fm.idx <= j /\ j < fm.idx + 50
  /\ fm.searched \subseteq fm.looked
  /\ \A j \in fm.looked :
       (StartsWithTask(Strip(At(lines, j))) \/ StartsWithPlay(Strip(At(lines, j)))) =>
         /\ j \notin fm.searched
         /\ \A j2 \in fm.looked : j2 <= j
         /\ fm.pc = "returned" /\ fm.msg = None

\* both caps were met: the accumulation read the line at k + 99 and left the
\* closing brace at k + 100 alone, the fallback searched the line at k + 49
\* and left the msg at k + 50 alone, and no message was found
C19_Witness ==
  /\ fm.pc = "returned" /\ fm.msg = None
  /\ Len(fm.json_lines) = 100
  /\ fm.idx + 99 \in fm.read
  /\ Len(lines) > fm.idx + 100
  /\ At(lines, fm.idx + 100) = <<RBRACE>>
  /\ Cardinality(fm.looked) = 50
  /\ fm.idx + 49 \in fm.searched
  /\ MsgRegexHits(At(lines, fm.idx + 50)) # {}

(***************************************************************************)
(* C20  The timestamp stripper, applied by _parse_log_file to the text of  *)
(* a timestamped log, maps lines one to one: as many lines out as in, a    *)
(* line that does not match the timestamp pattern unchanged, a line that   *)
(* matches it turned into the text after the timestamp and its separator,  *)
(* so that no line that matched still begins with its timestamp.           *)
(***************************************************************************)
C20_StripLineByLine ==
  (parser_type = "logs" /\ pc \in {"finally", "returned"} /\ exc = PyNone) =>
    LET ins == Split(raw_content)
        outs == Split(StripTimestamps(raw_content))
    IN /\ Len(outs) = Len(ins)
       /\ \A n \in 1..Len(ins) :
            IF TimestampMatch(ins[n])
            THEN /\ outs[n] = WithoutPrefix(ins[n])
                 /\ ~StartsWith(outs[n], <<STAMP>>)
            ELSE outs[n] = ins[n]

(***************************************************************************)
(* C21  When parse returns from a timestamped text, on whatever path       *)
(* (success, no hosts, an exception raised after the scratch file was      *)
(* created, a failure of the write into it included), the scratch file of  *)
(* the call exists no longer.                                              *)
(***************************************************************************)
C21_ScratchRemoved ==
  (pc = "returned" /\ parser_type = "logs") => tmp \in {"none", "deleted"}

(***************************************************************************)
(* C22  Every failure result parse returns has an error category, a detail *)
(* string and the format tag that was detected, "play" or "logs", in each  *)
(* of the three failure categories.                                        *)
(***************************************************************************)
C22_FailureFields ==
  (pc = "returned" /\ ~result.success) =>
    /\ result.error # PyNone
    /\ result.detail # PyNone
    /\ result.parser_type \in {"play", "logs"}

\* the play names parse passes to the task extractor
KnownPlayNames ==
  IF parser_type = "play" THEN PlayOf(lib).names
  ELSE CollectRuns(lib, [all_play_names |-> <<>>, all_hosts |-> <<>>]).all_play_names

(***************************************************************************)
(* C23  Every task the task extractor returns has a play_name that is one  *)
(* of the known play names it was given, so that every task of a           *)
(* successful result belongs to a play of the result's plays list.         *)
(***************************************************************************)
C23_TasksOfKnownPlays ==
  (pc = "returned" /\ result.success) =>
    \A n \in 1..Len(result.tasks) :
      /\ InSeq(result.tasks[n].play_name, KnownPlayNames)
      /\ \E m \in 1..Len(result.plays) : result.plays[m].name = result.tasks[n].play_name

(***************************************************************************)
(* LogViewSet.create (views.py): the validated log is saved, its text is   *)
(* parsed, and the log is deleted again when the parse fails; otherwise a  *)
(* Host is created per parsed host and a Play per host and parsed play.    *)
(* A Host is known by its log and hostname, a Play by its host and fields. *)
(***************************************************************************)
LogIds == {1, 2}
NoLog == 0

NoRecords == [logs |-> {}, hosts |-> {}, plays |-> {}]

LogRecord(id, title, content) == [id |-> id, title |-> title, raw_content |-> content]

\* Host.objects.create(log=log, hostname=parsed_host.hostname)
HostRecord(log, parsed_host) == [log |-> log, hostname |-> parsed_host.hostname]

\* Play.objects.create(host=host, name=..., date=..., status=..., ...)
PlayRecord(log, parsed_host, parsed_play, timestamp) ==
  [host |-> HostRecord(log, parsed_host),
   name |-> parsed_play.name,
   date |-> timestamp,
   status |-> DetermineStatus(parsed_host),
   tasks_ok |-> parsed_host.ok,
   tasks_changed |-> parsed_host.changed,
   tasks_failed |-> parsed_host.failed,
   line_number |-> parsed_play.line_number,
   order |-> parsed_play.order]

\* faulty variant: the log of a failed parse is left in the store
DeleteLogNever(db, id) == db

\* log.delete(): the log goes, and with it (on_delete=CASCADE) its hosts and
\* their plays
DeleteLog(db, id) ==
  [logs |-> {l \in db.logs : l.id # id},
   hosts |-> {h \in db.hosts : h.log # id},
   plays |-> {p \in db.plays : p.host.log # id}]

\* validate_title: the title is empty or blank
TitleRejected(title) == title = <<>> \/ Strip(title) = <<>>

\* a store that holds the records of an earlier request
OldHost == ParsedHost("h1", AllCounts)
OldStore ==
  [logs |-> {LogRecord(1, <<WORD>>, PlayLine("p"))},
   hosts |-> {HostRecord(1, OldHost)},
   plays |-> {PlayRecord(1, OldHost, ParsedPlay("p", 0, 1), PyNone)}]

\* the titles and the texts of the requests
CreateTitles == {<<>>, <<SP>>, <<WORD>>}
CreateInputs ==
  { <<>>, <<SP, LF>>, <<WORD>>,
    JoinWith(<<PlayLine("p"), TaskLine("t"), OkLine("h1")>>, <<LF>>),
    StampedText("h1") }

\* what the library may find in the text
CreateRuns ==
  { <<>>,
    <<Run(<<"p">>, <<RecapItem("h1", AllCounts)>>)>>,
    <<Run(<<"p", "q">>, <<RecapItem("h1", AllCounts),
                          RecapItem("h2", [key \in {"ok"} |-> 2])>>)>> }

InitCreate ==
  /\ store \in {NoRecords, OldStore}
  /\ \E title \in CreateTitles, content \in CreateInputs :
       req = [pc |-> "start", title |-> title, raw_content |-> content,
              log |-> NoLog, k |-> 1, status |-> 0, before |-> store]
  /\ lib \in CreateRuns
  /\ input = <<>> /\ raw_content = <<>> /\ parser_type = PyNone /\ pc = "idle"
  /\ exc = PyNone /\ tmp = "none" /\ result = EmptyContentResult
  /\ lines = <<>> /\ scan = Idle /\ names = <<>> /\ ix = Idle
  /\ host = Idle /\ status = PyNone /\ fm = Idle /\ calls = <<>> /\ files = {}

createFrame == <<extractVars, raw_content, parser_type, lib, exc, tmp, result, host, status, fm, calls, files>>

\* serializer.is_valid(raise_exception=True) raises: the answer is 400
CreateReject ==
  /\ req.pc = "start" /\ TitleRejected(req.title)
  /\ req' = [req EXCEPT !.pc = "responded", !.status = 400]
  /\ UNCHANGED <<store, input, pc, createFrame>>

\* log = serializer.save(), under an id no log has; parse is called with
\* log.raw_content
CreateSave ==
  /\ req.pc = "start" /\ ~TitleRejected(req.title)
  /\ \E id \in LogIds \ {l.id : l \in store.logs} :
       /\ store' = [store EXCEPT !.logs = @ \cup {LogRecord(id, Strip(req.title),
                                                             req.raw_content)}]
       /\ req' = [req EXCEPT !.pc = "parse", !.log = id]
  /\ input' = req.raw_content
  /\ pc' = "start"
  /\ UNCHANGED createFrame

\* if not result.success: log.delete() and the answer is 500
CreateFail ==
  /\ req.pc = "parse" /\ pc = "returned" /\ ~result.success
  /\ store' = DeleteLog(store, req.log)
  /\ req' = [req EXCEPT !.pc = "responded", !.status = 500]
  /\ UNCHANGED <<input, pc, createFrame>>

\* one iteration of the loop over result.hosts: the Host and its Plays
CreateHost ==
  /\ req.pc = "parse" /\ pc = "returned" /\ result.success
  /\ req.k <= Len(result.hosts)
  /\ LET parsed_host == result.hosts[req.k]
     IN store' = [store EXCEPT
          !.hosts = @ \cup {HostRecord(req.log, parsed_host)},
          !.plays = @ \cup {PlayRecord(req.log, parsed_host, result.plays[m],
                                       result.timestamp) :
                              m \in 1..Len(result.plays)}]
  /\ req' = [req EXCEPT !.k = @ + 1]
  /\ UNCHANGED <<input, pc, createFrame>>

\* the loop is over: the answer is 201 with the log, its hosts and plays
CreateRespond ==
  /\ req.pc = "parse" /\ pc = "returned" /\ result.success
  /\ req.k > Len(result.hosts)
  /\ req' = [req EXCEPT !.pc = "responded", !.status = 201]
  /\ UNCHANGED <<store, input, pc, createFrame>>

NextCreate ==
  \/ CreateReject \/ CreateSave \/ NextParse
  \/ CreateFail \/ CreateHost \/ CreateRespond

\* one request to the create operation, on an empty store or after another
SpecCreate == InitCreate /\ [][NextCreate]_vars

\* the records of the store that belong to a log
RecordsOf(id) ==
  [logs |-> {l \in store.logs : l.id = id},
   hosts |-> {h \in store.hosts : h.log = id},
   plays |-> {p \in store.plays : p.host.log = id}]

(***************************************************************************)
(* C24  When the parse of a create request fails, the store holds no Log,  *)
(* Host or Play of that request once the answer is given: the Log saved    *)
(* before the parse is deleted, and no Host or Play was created for it at  *)
(* any time; the records of other requests are as they were.               *)
(***************************************************************************)
C24_FailureLeavesNothing ==
  /\ (req.pc = "responded" /\ req.log # NoLog /\ ~result.success) =>
       /\ RecordsOf(req.log) = NoRecords
       /\ store = req.before
       /\ req.status = 500
  /\ (req.pc \in {"parse", "responded"} /\ ~(pc = "returned" /\ result.success)) =>
       /\ RecordsOf(req.log).hosts = {}
       /\ RecordsOf(req.log).plays = {}

\* a text with no recap was sent to a store that held another log: the log
\* was saved, the parse failed, the answer is given
C24_Witness ==
  /\ req.pc = "responded" /\ req.status = 500 /\ req.log # NoLog
  /\ req.raw_content # <<>>
  /\ result.error = "No hosts found in log"
  /\ store = OldStore

(***************************************************************************)
(* The task extractor run to its end: texts with headers, boundary lines   *)
(* and failed status lines whose message is looked for on the lines below. *)
(* The call runs on its own thread of control until it returns or raises.  *)
(***************************************************************************)
MaxLoopLines == 4

LoopLines ==
  { PlayLine("p"), TaskLine("t"), <<TaskOpen>>, <<RECAP>>,
    <<StatusTok("failed", "h1")>>, FailedWith(<<DeepMember>>) }

InitLoop ==
  /\ lines \in SeqsUpTo(LoopLines, MaxLoopLines)
  /\ scan = ScanInit
  /\ names = <<>> /\ ix = Idle
  /\ ParseIdle
  /\ OtherIdle

SpecLoop == InitLoop /\ [][NextTasks]_vars /\ WF_vars(NextTasks)

\* what one step of the scan does to the line index
ScanAdvance ==
  /\ scan'.i >= scan.i
  /\ (scan.pc = "outer" /\ scan.i < Len(lines)) => scan'.i = scan.i + 1
  /\ (scan.pc = "inner" /\ scan.i < Len(lines) /\ ~IsBoundary(ScanLine)) =>
       \/ scan'.pc = "inner" /\ scan'.i = scan.i + 1
       \/ scan'.pc = "raised" /\ scan'.i = scan.i
  /\ (scan.pc = "inner" /\ scan.i < Len(lines) /\ IsBoundary(ScanLine)) =>
       scan'.pc = "outer" /\ scan'.i = scan.i
  /\ (scan.pc = "inner" /\ scan.i >= Len(lines)) =>
       scan'.pc = "outer" /\ scan'.i = scan.i

(***************************************************************************)
(* C25  The scan of the task extractor ends on every text: an iteration of *)
(* the outer loop moves the line index on by one, the inner loop by one    *)
(* per line that is no boundary, a boundary line that ends a task is left  *)
(* to the outer loop, which reads it once and moves on, and looking for a  *)
(* failure message on the lines below a status line leaves the index of    *)
(* the scan where it was.                                                  *)
(***************************************************************************)
C25_ScanTerminates ==
  /\ [][ScanAdvance]_vars
  /\ <>(scan.pc \in {"done", "raised"})

\* the outer loop reads the recap header that ended a task whose failed
\* result had its message looked for on the lines below
C25_Witness ==
  /\ lines = <<PlayLine("p"), TaskLine("t"), <<StatusTok("failed", "h1")>>, <<RECAP>>>>
  /\ scan.pc = "outer" /\ scan.i = 3
  /\ Len(scan.task_map) = 1

\* the last matched play header of the text, or 0
LastPlayHeader == LastPlayAbove(Len(lines) + 1)

\* a status line stands under a task header that has this key
KeyHasStatusLine(key) ==
  \E m \in LineNos : HeaderTable[m] > 0 /\ KeyTable[HeaderTable[m]] = key

(***************************************************************************)
(* C26  Every ParsedTask of the task extractor has at least one result.  A *)
(* task header with no status line under it, in any of its occurrences,    *)
(* gives no ParsedTask, yet it advances the order counter of its play, so  *)
(* the orders of the tasks returned for a play may have gaps.              *)
(***************************************************************************)
C26_TasksHaveResults ==
  /\ \A n \in 1..Len(scan.task_map) : Len(scan.task_map[n].results) >= 1
  /\ scan.pc = "done" =>
       /\ \A j \in LineNos :
            IsTaskHeader(j) =>
              ((\E n \in 1..Len(scan.task_map) : KeyOfTask(scan.task_map[n]) = KeyTable[j])
                 <=> KeyHasStatusLine(KeyTable[j]))
       /\ LastPlayHeader > 0 =>
            Get(scan.play_task_order, scan.current_play, 0)
              = Cardinality({j \in (LastPlayHeader + 1)..Len(lines) : IsTaskHeader(j)})

\* the first task header of the play had no status line: the only task
\* returned has order 1
C26_Witness ==
  /\ scan.pc = "done"
  /\ Len(scan.task_map) = 1 /\ scan.task_map[1].order = 1
  /\ Get(scan.play_task_order, scan.current_play, 0) = 2

(***************************************************************************)
(* The task extractor on texts long enough for two sections of a play,     *)
(* each with a task that has a result.                                     *)
(***************************************************************************)
MaxSectionLines == 6

SectionLines == { PlayLine("p"), TaskLine("t"), TaskLine("u"), OkLine("h1") }

InitSections ==
  /\ lines \in SeqsUpTo(SectionLines, MaxSectionLines)
  /\ scan = ScanInit
  /\ names = <<>> /\ ix = Idle
  /\ ParseIdle
  /\ OtherIdle

SpecSections == InitSections /\ [][NextTasks]_vars

\* two tasks of the same play with the same order and different names
SameOrderOtherName(a, b) ==
  /\ a.play_name = b.play_name /\ a.order = b.order /\ a.name # b.name

(***************************************************************************)
(* C27  As claimed: within one play the order identifies a task; no two    *)
(* ParsedTasks have the same play_name and order and different names,      *)
(* whatever the sequence of play and task headers.                         *)
(***************************************************************************)
C27_OrderIdentifiesTask ==
  \A a, b \in 1..Len(scan.task_map) :
    ~SameOrderOtherName(scan.task_map[a], scan.task_map[b])

(***************************************************************************)
(* C27  As amended: play_name, name and order together identify a task, no *)
(* two ParsedTasks having the same three; and two ParsedTasks with the     *)
(* same play_name and order and different names were made under different  *)
(* PLAY [ headers, so that within one section of a play the order          *)
(* identifies the task.                                                    *)
(***************************************************************************)
C27_KeyIdentifiesTask ==
  \A a, b \in 1..Len(scan.task_map) :
    /\ a # b => KeyOfTask(scan.task_map[a]) # KeyOfTask(scan.task_map[b])
    /\ SameOrderOtherName(scan.task_map[a], scan.task_map[b]) =>
         LastPlayAbove(scan.task_map[a].line_number)
           # LastPlayAbove(scan.task_map[b].line_number)

\* two sections of the play p: the first task of one is t, of the other u
C27_Witness ==
  /\ scan.pc = "done" /\ Len(scan.task_map) = 2
  /\ SameOrderOtherName(scan.task_map[1], scan.task_map[2])

(***************************************************************************)
(* _extract_failure_message on failed results that carry no msg of their   *)
(* own, followed by the recap header, results of another host, a line with *)
(* a msg, section headers and other lines.                                 *)
(***************************************************************************)
MaxFallbackAfter == 3

OtherHostLine ==
  <<StatusTok("ok", "h2"), SP, ARROW, SP, LBRACE, MsgMember("str", "fine"), RBRACE>>

FallbackStatusLines ==
  { <<StatusTok("failed", "h1")>>, <<StatusTok("fatal", "h1")>>,
    FailedWith(<<OtherMember, RBRACE>>) }

FallbackAfterLines ==
  { <<RECAP>>, OkLine("h2"), OtherHostLine, <<SP, MsgMember("str", "boom")>>,
    TaskLine("u"), PlayLine("q"), <<WORD>>, ArrowLine(<<OtherMember, RBRACE>>) }

InitFallback ==
  InitMessageWith({<<s>> \o rest : s \in FallbackStatusLines,
                                   rest \in {<<>>} \cup SeqsUpTo(FallbackAfterLines,
                                                                   MaxFallbackAfter)},
                  {0})

SpecFallback == InitFallback /\ [][NextMessage]_vars

\* the line at index j starts a section; it holds a msg field
SectionAt(j) ==
  StartsWithTask(Strip(At(lines, j))) \/ StartsWithPlay(Strip(At(lines, j)))
MsgAt(j) == MsgRegexHits(Strip(At(lines, j))) # {}

\* the text of the first msg field of the line at index j
MsgTextAt(j) ==
  LET line == Strip(At(lines, j))
      raw == line[Min(MsgRegexHits(line))].a
  IN IF raw = "" THEN <<>> ELSE <<raw>>

(***************************************************************************)
(* C28  The fallback scan of the failure-message extractor runs whenever   *)
(* the payload strategies gave no message, looks at the lines from the     *)
(* status line on, and ends early only at a line starting with TASK [ or   *)
(* PLAY [ or after 50 lines; it goes past the status lines of other hosts  *)
(* and past the PLAY RECAP header, so the result gets the msg of the first *)
(* line in range that has one, whichever host that line belongs to.        *)
(***************************************************************************)
C28_FallbackStops ==
  fm.pc = "returned" =>
    IF fm.looked = {} THEN Truthy(fm.msg)
    ELSE LET last == Max(fm.looked)
         IN /\ fm.looked = fm.idx..last
            /\ \A j \in fm.idx..(last - 1) : ~SectionAt(j) /\ ~MsgAt(j)
            /\ \/ SectionAt(last) /\ fm.msg = None
               \/ ~SectionAt(last) /\ MsgAt(last) /\ fm.msg = Some(MsgTextAt(last))
               \/ /\ ~SectionAt(last) /\ ~MsgAt(last)
                  /\ last = MinOf(fm.idx + 50, Len(lines)) - 1
                  /\ fm.msg = None

\* the failed result of h1 got the msg of the ok result of h2, found past the
\* recap header
C28_Witness ==
  /\ fm.pc = "returned"
  /\ lines = <<<<StatusTok("failed", "h1")>>, <<RECAP>>, OtherHostLine>>
  /\ fm.looked = {0, 1, 2}
  /\ fm.msg = Some(<<"fine">>)

\* a recap header stands between the last play header above line j and line j
RecapSincePlay(j) ==
  \E r \in (LastPlayAbove(j) + 1)..(j - 1) : StartsWithRecap(TextLine(r))

(***************************************************************************)
(* C29  A PLAY RECAP line ends the lines of the current task and leaves    *)
(* the current play as it is: a TASK [ header that comes after a recap     *)
(* header, with no PLAY [ header between the two, belongs to the play      *)
(* whose header precedes the recap, and its order goes on from the counter *)
(* of that play.                                                           *)
(***************************************************************************)
C29_RecapKeepsPlay ==
  scan.pc = "inner" =>
    /\ \A r \in (scan.task_line_number + 1)..scan.i : ~StartsWithRecap(TextLine(r))
    /\ RecapSincePlay(scan.task_line_number) =>
         /\ LastPlayAbove(scan.task_line_number) > 0
         /\ scan.current_play = PlayGroup1(TextLine(LastPlayAbove(scan.task_line_number)))
         /\ scan.order = Cardinality(HeadersSincePlay(scan.task_line_number))
         /\ Get(scan.play_task_order, scan.current_play, 0) = scan.order + 1

\* PLAY [p], TASK [t], PLAY RECAP, TASK [u]: u is read as the second task of p
C29_Witness ==
  /\ scan.pc = "inner"
  /\ lines = <<PlayLine("p"), TaskLine("t"), <<RECAP>>, TaskLine("u")>>
  /\ scan.task_name = "u" /\ scan.current_play = "p" /\ scan.order = 1

(***************************************************************************)
(* C30  Every failure result of parse has no hosts, no plays, no tasks and *)
(* no timestamp, also when plays or tasks had been extracted from the text *)
(* before the check for hosts or before the exception.                     *)
(***************************************************************************)
C30_FailureCarriesNoData ==
  (pc = "returned" /\ ~result.success) =>
    /\ result.hosts = <<>>
    /\ result.plays = <<>>
    /\ result.tasks = <<>>
    /\ result.timestamp = PyNone

\* the text held a task with a result, the recap gave no host: the task was
\* extracted and the failure returned does not carry it
C30_Witness ==
  /\ pc = "returned" /\ parser_type = "play"
  /\ result.error = "No hosts found in log"
  /\ ExtractTasksFromContent(raw_content) # <<>>
  /\ result.tasks = <<>>

====
